---- MODULE Spec2Model ----
(***************************************************************************)
(* Model of the SME financial-health backend (sme-finhealth-backend/app):  *)
(* the tabular normalizers (main.normalize_transactions and                *)
(* utils.normalize_transactions), the ingestion endpoints that store       *)
(* transactions, and the store they write to.                              *)
(*                                                                         *)
(* Representation.                                                         *)
(*   - Text is a TLA+ string; characters are its substrings of length 1.   *)
(*   - A number (Python float) is an integer count of hundredths, so 500.0 *)
(*     is 50000 and 12.5 is 1250.  Inputs never carry more than two        *)
(*     fraction digits.                                                    *)
(*   - A calendar date is the integer yyyymmdd; NaT is the value 0.        *)
(*   - A pandas cell is a record [t, v, s]: t = "nan" (missing),           *)
(*     t = "num" (float v), t = "str" (text s), t = "date" (date v).       *)
(*   - pandas is modelled with its 2.x behaviour: astype(str) renders a    *)
(*     missing value as the text "nan", and to_datetime on a column        *)
(*     infers one format from the first non-missing element.               *)
(***************************************************************************)
EXTENDS Bags, FiniteSets, Integers, Sequences, TLC

VARIABLES
    df,      \* the tabular dataset handed to a normalizer: [columns, rows]
    dfP,     \* the same dataset with its columns permuted
    norm,    \* result of the last main.normalize_transactions(df)
    normU,   \* result of the last utils.normalize_transactions(df)
    normP,   \* result of the last main.normalize_transactions(dfP)
    normUP,  \* result of the last utils.normalize_transactions(dfP)
    txns,    \* table "transactions": a bag of stored rows
    invoices, \* table "invoices": sequence of rows, oldest first
    audit,   \* table "audit_logs": sequence of entries, oldest first
    last,    \* the last request served: [op, status, count, input, body]
    inflight \* the upload commits being served at once, each with the locals
             \* of its handler: [file, pc, rows, added, status]

vars == <<df, dfP, norm, normU, normP, normUP, txns, invoices, audit, last, inflight>>

-----------------------------------------------------------------------------
(* Text helpers: Python str methods used by the code.                      *)

\* F applied to the value of v (of v and w): the argument is evaluated once,
\* however often F uses it
With(v, F(_)) == CHOOSE r \in {F(x) : x \in {v}} : TRUE

With2(v, w, F(_, _)) == CHOOSE r \in {F(x, y) : x \in {v}, y \in {w}} : TRUE

Ch(s, i) == SubSeq(s, i, i)

Rest(s) == SubSeq(s, 2, Len(s))

Min(S0) == With(S0, LAMBDA S : CHOOSE x \in S : \A y \in S : x <= y)

Max(S0) == With(S0, LAMBDA S : CHOOSE x \in S : \A y \in S : x >= y)

\* the first index from i on whose character is not in the class, Len(s) + 1
\* when there is none
Span(s0, i0, InClass(_)) ==
    With2(s0, i0, LAMBDA s, i :
        With({j \in i..Len(s) : ~InClass(Ch(s, j))},
             LAMBDA stops : IF stops = {} THEN Len(s) + 1 ELSE Min(stops)))

DigitChars == {"0", "1", "2", "3", "4", "5", "6", "7", "8", "9"}

IsDigit(c) == c \in DigitChars

DigitOf == "0" :> 0 @@ "1" :> 1 @@ "2" :> 2 @@ "3" :> 3 @@ "4" :> 4
           @@ "5" :> 5 @@ "6" :> 6 @@ "7" :> 7 @@ "8" :> 8 @@ "9" :> 9

DigitVal(c) == DigitOf[c]

DigitStr == <<"0", "1", "2", "3", "4", "5", "6", "7", "8", "9">>

UpperChars ==
    {"A", "B", "C", "D", "E", "F", "G", "H", "I", "J", "K", "L", "M",
     "N", "O", "P", "Q", "R", "S", "T", "U", "V", "W", "X", "Y", "Z"}

LowerChars ==
    {"a", "b", "c", "d", "e", "f", "g", "h", "i", "j", "k", "l", "m",
     "n", "o", "p", "q", "r", "s", "t", "u", "v", "w", "x", "y", "z"}

IsUpper(c) == c \in UpperChars

IsLower(c) == c \in LowerChars

IsAlpha(c) == IsUpper(c) \/ IsLower(c)

IsAlnum(c) == IsAlpha(c) \/ IsDigit(c)

\* str.isspace for the characters the inputs use
IsSpace(c) == c \in {" ", "\t", "\n"}

LowerOf ==
    "A" :> "a" @@ "B" :> "b" @@ "C" :> "c" @@ "D" :> "d" @@ "E" :> "e" @@ "F" :> "f"
    @@ "G" :> "g" @@ "H" :> "h" @@ "I" :> "i" @@ "J" :> "j" @@ "K" :> "k" @@ "L" :> "l"
    @@ "M" :> "m" @@ "N" :> "n" @@ "O" :> "o" @@ "P" :> "p" @@ "Q" :> "q" @@ "R" :> "r"
    @@ "S" :> "s" @@ "T" :> "t" @@ "U" :> "u" @@ "V" :> "v" @@ "W" :> "w" @@ "X" :> "x"
    @@ "Y" :> "y" @@ "Z" :> "z"

UpperOf ==
    "a" :> "A" @@ "b" :> "B" @@ "c" :> "C" @@ "d" :> "D" @@ "e" :> "E" @@ "f" :> "F"
    @@ "g" :> "G" @@ "h" :> "H" @@ "i" :> "I" @@ "j" :> "J" @@ "k" :> "K" @@ "l" :> "L"
    @@ "m" :> "M" @@ "n" :> "N" @@ "o" :> "O" @@ "p" :> "P" @@ "q" :> "Q" @@ "r" :> "R"
    @@ "s" :> "S" @@ "t" :> "T" @@ "u" :> "U" @@ "v" :> "V" @@ "w" :> "W" @@ "x" :> "X"
    @@ "y" :> "Y" @@ "z" :> "Z"

LowerCh(c) == IF IsUpper(c) THEN LowerOf[c] ELSE c

UpperCh(c) == IF IsLower(c) THEN UpperOf[c] ELSE c

\* str.lower(): every character mapped, the text taken by halves
RECURSIVE Lower(_)
Lower(s0) ==
    With(s0, LAMBDA s :
        IF s = "" THEN ""
        ELSE IF Len(s) = 1 THEN LowerCh(s)
        ELSE Lower(SubSeq(s, 1, Len(s) \div 2)) \o Lower(SubSeq(s, Len(s) \div 2 + 1, Len(s))))

\* str.upper()
RECURSIVE Upper(_)
Upper(s0) ==
    With(s0, LAMBDA s :
        IF s = "" THEN ""
        ELSE IF Len(s) = 1 THEN UpperCh(s)
        ELSE Upper(SubSeq(s, 1, Len(s) \div 2)) \o Upper(SubSeq(s, Len(s) \div 2 + 1, Len(s))))

\* str.lstrip()
LStrip(s0) == With(s0, LAMBDA s : SubSeq(s, Span(s, 1, IsSpace), Len(s)))

\* str.rstrip()
RStrip(s0) ==
    With(s0, LAMBDA s : SubSeq(s, 1, Max({0} \cup {i \in 1..Len(s) : ~IsSpace(Ch(s, i))})))

\* str.strip()
Strip(s) == RStrip(LStrip(s))

\* s[:n]
Slice(s0, n) == With(s0, LAMBDA s : IF Len(s) <= n THEN s ELSE SubSeq(s, 1, n))

StartsWith(s0, p0) ==
    With2(s0, p0, LAMBDA s, p : Len(p) <= Len(s) /\ SubSeq(s, 1, Len(p)) = p)

\* p in s
Contains(s0, p0) ==
    With2(s0, p0, LAMBDA s, p :
        \E i \in 1..(Len(s) - Len(p) + 1) : SubSeq(s, i, i + Len(p) - 1) = p)

\* s.replace(old, new), old non-empty: every occurrence, left to right
RECURSIVE Replace(_, _, _)
Replace(s0, old0, new) ==
    With2(s0, old0, LAMBDA s, old :
        With({i \in 1..(Len(s) - Len(old) + 1) : SubSeq(s, i, i + Len(old) - 1) = old},
             LAMBDA at :
            IF at = {} THEN s
            ELSE SubSeq(s, 1, Min(at) - 1) \o new
                 \o Replace(SubSeq(s, Min(at) + Len(old), Len(s)), old, new)))

\* s.split(sep) for a one-character sep: the fields between separators
RECURSIVE SplitOn(_, _)
SplitOn(s0, sep) ==
    With(s0, LAMBDA s :
        IF ~Contains(s, sep) THEN <<s>>
        ELSE With(CHOOSE k \in 1..Len(s) :
                      Ch(s, k) = sep /\ \A j \in 1..(k - 1) : Ch(s, j) # sep,
                  LAMBDA i : <<SubSeq(s, 1, i - 1)>> \o SplitOn(SubSeq(s, i + 1, Len(s)), sep)))

AllDigits(s0) == With(s0, LAMBDA s : s # "" /\ \A i \in 1..Len(s) : IsDigit(Ch(s, i)))

\* int(s) for a string of digits
RECURSIVE DigitsVal(_)
DigitsVal(s0) ==
    With(s0, LAMBDA s :
        IF s = "" THEN 0
        ELSE DigitsVal(SubSeq(s, 1, Len(s) - 1)) * 10 + DigitVal(Ch(s, Len(s))))

\* str(n) for n >= 0
RECURSIVE NatStr(_)
NatStr(n0) ==
    With(n0, LAMBDA n :
        IF n < 10 THEN DigitStr[n + 1] ELSE NatStr(n \div 10) \o DigitStr[(n % 10) + 1])

Abs(x) == IF x < 0 THEN -x ELSE x

-----------------------------------------------------------------------------
(* Numbers as text: Python float(s) and str(float), in hundredths.         *)

Fail == [ok |-> FALSE, v |-> 0]

Ok(x) == [ok |-> TRUE, v |-> x]

\* the hundredths of a fraction-digit string: "" -> 0, "5" -> 50, "07" -> 7
FracVal(f0) ==
    With(f0, LAMBDA f :
    IF f = "" THEN 0
    ELSE IF Len(f) = 1 THEN DigitVal(Ch(f, 1)) * 10
    ELSE DigitVal(Ch(f, 1)) * 10 + DigitVal(Ch(f, 2)))

\* float(s) for an unsigned decimal literal: digits, digits., digits.digits, .digits
UnsignedFloat(s0) ==
    With2(s0, SplitOn(s0, "."), LAMBDA s, parts :
        IF Len(parts) = 1
        THEN IF AllDigits(s) THEN Ok(DigitsVal(s) * 100) ELSE Fail
        ELSE IF Len(parts) = 2
                /\ (parts[1] = "" \/ AllDigits(parts[1]))
                /\ (parts[2] = "" \/ AllDigits(parts[2]))
                /\ (parts[1] # "" \/ parts[2] # "")
             THEN Ok(DigitsVal(parts[1]) * 100 + FracVal(parts[2]))
             ELSE Fail)

\* float(s): surrounding whitespace, an optional sign, a decimal literal
PyFloat(s0) ==
    With(Strip(s0), LAMBDA s :
        With(UnsignedFloat(IF StartsWith(s, "-") \/ StartsWith(s, "+") THEN Rest(s) ELSE s),
             LAMBDA u : IF u.ok THEN Ok(IF StartsWith(s, "-") THEN -u.v ELSE u.v) ELSE Fail))

\* str(x) of a float: "500.0", "-12.5", "0.07"
FloatStr(x) ==
    LET a == Abs(x)
        f == a % 100
        frac == IF f % 10 = 0 THEN NatStr(f \div 10) ELSE NatStr(f \div 10) \o NatStr(f % 10)
    IN  (IF x < 0 THEN "-" ELSE "") \o NatStr(a \div 100) \o "." \o frac

-----------------------------------------------------------------------------
(* pandas cells.                                                           *)

NaN == [t |-> "nan", v |-> 0, s |-> ""]

Num(x) == [t |-> "num", v |-> x, s |-> ""]

Str(x) == [t |-> "str", v |-> 0, s |-> x]

DateCell(d) == [t |-> "date", v |-> d, s |-> ""]

\* whole currency units to hundredths
Units(n) == n * 100

-----------------------------------------------------------------------------
(* Calendar dates and their parsing.                                       *)

NaT == 0

MkDate(y, m, d) == y * 10000 + m * 100 + d

YearOf(d) == d \div 10000

MonthOf(d) == (d \div 100) % 100

DayOf(d) == d % 100

IsLeap(y) == (y % 4 = 0 /\ y % 100 # 0) \/ y % 400 = 0

DaysInMonth(y, m) ==
    IF m = 2 THEN (IF IsLeap(y) THEN 29 ELSE 28)
    ELSE IF m \in {4, 6, 9, 11} THEN 30 ELSE 31

ValidYMD(y, m, d) == y >= 1 /\ m \in 1..12 /\ d \in 1..DaysInMonth(y, m)

\* the text a strptime directive accepts: %Y four digits, %m and %d one or two
FieldY(f0) == With(f0, LAMBDA f : Len(f) = 4 /\ AllDigits(f))

FieldMD(f0) == With(f0, LAMBDA f : Len(f) \in {1, 2} /\ AllDigits(f))

\* datetime.strptime(s, fmt).date() for the formats built from %Y %m %d and
\* one separator; order names the directive order: "YMD", "DMY" or "MDY"
Strptime(s, sep, order) ==
    With(SplitOn(s, sep), LAMBDA p :
        IF Len(p) # 3 THEN Fail
        ELSE LET fy == IF order = "YMD" THEN p[1] ELSE p[3]
                 fm == IF order = "YMD" THEN p[2] ELSE IF order = "DMY" THEN p[2] ELSE p[1]
                 fd == IF order = "YMD" THEN p[3] ELSE IF order = "DMY" THEN p[1] ELSE p[2]
             IN  IF FieldY(fy) /\ FieldMD(fm) /\ FieldMD(fd)
                    /\ ValidYMD(DigitsVal(fy), DigitsVal(fm), DigitsVal(fd))
                 THEN Ok(MkDate(DigitsVal(fy), DigitsVal(fm), DigitsVal(fd)))
                 ELSE Fail)

\* the separator of a date-shaped text, "" when it has none
DateSep(s0) ==
    With(s0, LAMBDA s : IF Contains(s, "/") THEN "/" ELSE IF Contains(s, "-") THEN "-" ELSE "")

\* the order pandas / dateutil reads a numeric date in when dayfirst is not
\* set: year first when the text starts with a four-digit year, else month
\* first, else (month-first impossible) day first; "" when none parses
GuessOrder(s0) ==
    With2(s0, DateSep(s0), LAMBDA s, sep :
        IF sep = "" THEN ""
        ELSE IF Strptime(s, sep, "YMD").ok THEN "YMD"
        ELSE IF Strptime(s, sep, "MDY").ok THEN "MDY"
        ELSE IF Strptime(s, sep, "DMY").ok THEN "DMY"
        ELSE "")

\* pd.to_datetime(s) of one text: NaT for a missing value, the guessed
\* reading otherwise; not ok when the text is no date (the call raises)
ToDatetimeScalar(s0) ==
    With(s0, LAMBDA s :
        IF s \in {"", "nan", "NaT", "None"} THEN Ok(NaT)
        ELSE With(GuessOrder(s), LAMBDA order :
                 IF order = "" THEN Fail ELSE Strptime(s, DateSep(s), order)))

\* str(x) of a cell value
CellStr(c0) ==
    With(c0, LAMBDA c :
    IF c.t = "nan" THEN "nan"
    ELSE IF c.t = "num" THEN FloatStr(c.v)
    ELSE IF c.t = "date" THEN
        NatStr(YearOf(c.v)) \o "-" \o (IF MonthOf(c.v) < 10 THEN "0" ELSE "") \o NatStr(MonthOf(c.v))
            \o "-" \o (IF DayOf(c.v) < 10 THEN "0" ELSE "") \o NatStr(DayOf(c.v))
    ELSE c.s)

\* main._parse_date_any: not ok stands for HTTPException(400, "Invalid date")
_parse_date_any(v0) ==
    With(v0, LAMBDA v :
        IF v.t = "date" THEN Ok(v.v)
        ELSE With(Strip(CellStr(v)), LAMBDA s :
                 IF Strptime(s, "-", "YMD").ok THEN Strptime(s, "-", "YMD")
                 ELSE IF Strptime(s, "/", "DMY").ok THEN Strptime(s, "/", "DMY")
                 ELSE IF Strptime(s, "-", "DMY").ok THEN Strptime(s, "-", "DMY")
                 ELSE IF Strptime(s, "/", "MDY").ok THEN Strptime(s, "/", "MDY")
                 ELSE ToDatetimeScalar(s)))

\* pd.to_datetime(column, errors="coerce").dt.date: a column already holding
\* dates passes through; otherwise one format is inferred from the first
\* non-missing text and every element is read with it, NaT where it does not
\* fit; when no format can be inferred each element is read on its own
ToDatetimeColumn(cells0) ==
    With(cells0, LAMBDA cells :
        LET texts == {i \in 1..Len(cells) : cells[i].t \notin {"nan", "date"}}
            first == IF texts = {} THEN 0 ELSE CHOOSE i \in texts : \A j \in texts : i <= j
        IN  With(IF first = 0 THEN "" ELSE Strip(CellStr(cells[first])), LAMBDA s0 :
            With(GuessOrder(s0), LAMBDA order :
                LET One(c) ==
                        IF c.t = "date" THEN c.v
                        ELSE IF c.t = "nan" THEN NaT
                        ELSE With(IF order = "" THEN ToDatetimeScalar(Strip(CellStr(c)))
                                  ELSE Strptime(Strip(CellStr(c)), DateSep(s0), order),
                                  LAMBDA r : IF r.ok THEN r.v ELSE NaT)
                IN  [i \in 1..Len(cells) |-> One(cells[i])])))

-----------------------------------------------------------------------------
(* Field detection.  A resolved column is its header; None is the empty    *)
(* text, which the code's truth tests ("if not c_date") treat alike.       *)

None == ""

\* the key main.normalize_transactions files a header under: c.lower().strip()
KeyMain(c) == Strip(Lower(c))

\* the key utils._find_col files a header under: str(c).strip().lower()
KeyUtils(c) == Lower(Strip(c))

\* {key(c): c for c in columns}[k]: a later column replaces an earlier one
\* filed under the same key
DictGet(columns, keys, k0) ==
    With(k0, LAMBDA k :
    columns[CHOOSE j \in 1..Len(columns) :
                keys[j] = k /\ \A i \in 1..Len(columns) : keys[i] = k => i <= j])

\* the scan returning the last alias present instead of the first
FirstAlias_lastWins(columns, keys, names) ==
    With({i \in 1..Len(names) : \E j \in 1..Len(columns) : keys[j] = names[i]}, LAMBDA hit :
        IF hit = {} THEN None
        ELSE DictGet(columns, keys, names[CHOOSE i \in hit : \A k \in hit : i >= k]))

\* "for n in names: if n in cols: return cols[n]" over the dict above
FirstAlias(columns, keys, names) ==
    With({i \in 1..Len(names) : \E j \in 1..Len(columns) : keys[j] = names[i]}, LAMBDA hit :
        IF hit = {} THEN None
        ELSE DictGet(columns, keys, names[CHOOSE i \in hit : \A k \in hit : i <= k]))

\* the keys of main's dict "cols", in column order
RECURSIVE KeysMain(_)
KeysMain(columns) ==
    IF columns = <<>> THEN <<>> ELSE <<KeyMain(Head(columns))>> \o KeysMain(Tail(columns))

\* the keys of _find_col's dict "cols", in column order
RECURSIVE KeysUtils(_)
KeysUtils(columns) ==
    IF columns = <<>> THEN <<>> ELSE <<KeyUtils(Head(columns))>> \o KeysUtils(Tail(columns))

RECURSIVE StripAll(_)
StripAll(columns) ==
    IF columns = <<>> THEN <<>> ELSE <<Strip(Head(columns))>> \o StripAll(Tail(columns))

RECURSIVE LowerAll(_)
LowerAll(names) ==
    IF names = <<>> THEN <<>> ELSE <<Lower(Head(names))>> \o LowerAll(Tail(names))

\* main.normalize_transactions.pick, with the dict "cols" given by its keys
pick(columns, keys, names) == FirstAlias(columns, keys, names)

\* utils._find_col, on the stripped headers normalize_transactions gives it
_find_col(columns, keys, candidates) ==
    With(LowerAll(candidates), LAMBDA names : FirstAlias(columns, keys, names))

MainAliases ==
    [date |-> <<"date", "txn_date", "transaction_date", "value_date">>,
     description |-> <<"description", "narration", "particulars", "details", "remark", "remarks">>,
     category |-> <<"category", "cat", "type">>,
     direction |-> <<"direction", "drcr", "dr_cr", "credit_debit">>,
     amount |-> <<"amount", "amt", "value", "transaction_amount">>]

COLUMN_ALIASES ==
    [date |-> <<"date", "txn_date", "transaction_date", "value_date", "posting_date">>,
     description |-> <<"description", "narration", "particulars", "details", "remark", "remarks">>,
     amount |-> <<"amount", "amt", "transaction_amount">>,
     debit |-> <<"debit", "dr", "withdrawal", "withdrawals">>,
     credit |-> <<"credit", "cr", "deposit", "deposits">>,
     category |-> <<"category", "expense_category", "ledger", "account", "head">>]

\* the field mapping main.normalize_transactions resolves (c_date .. c_amt)
DetectMain(columns0) ==
    With2(columns0, KeysMain(columns0), LAMBDA columns, cols :
        [date |-> pick(columns, cols, MainAliases.date),
         description |-> pick(columns, cols, MainAliases.description),
         category |-> pick(columns, cols, MainAliases.category),
         direction |-> pick(columns, cols, MainAliases.direction),
         amount |-> pick(columns, cols, MainAliases.amount)])

\* the field mapping utils.normalize_transactions resolves ("detected")
DetectUtils(columns) ==
    With(StripAll(columns), LAMBDA stripped :
        With(KeysUtils(stripped), LAMBDA cols :
            [date |-> _find_col(stripped, cols, COLUMN_ALIASES.date),
             description |-> _find_col(stripped, cols, COLUMN_ALIASES.description),
             amount |-> _find_col(stripped, cols, COLUMN_ALIASES.amount),
             debit |-> _find_col(stripped, cols, COLUMN_ALIASES.debit),
             credit |-> _find_col(stripped, cols, COLUMN_ALIASES.credit),
             category |-> _find_col(stripped, cols, COLUMN_ALIASES.category)]))

NoMapMain == [date |-> None, description |-> None, category |-> None,
              direction |-> None, amount |-> None]

\* df[name]: the cells of the column with that header, top to bottom
Column(d, columns, name) ==
    With(CHOOSE k \in 1..Len(columns) : columns[k] = name,
         LAMBDA j : [i \in 1..Len(d.rows) |-> d.rows[i][j]])

-----------------------------------------------------------------------------
(* Row normalization.                                                      *)

DescMax == 255

CatMax == 64

\* Series.astype(str) of one cell: a missing value becomes the text "nan"
AsTypeStr(c) == CellStr(c)

\* main._safe_float
_safe_float(x0) ==
    With(x0, LAMBDA x :
        IF x.t = "nan" THEN 0
        ELSE With(Strip(Replace(CellStr(x), ",", "")), LAMBDA s :
                 IF s = "" THEN 0
                 ELSE With(PyFloat(s), LAMBDA f : IF f.ok THEN f.v ELSE 0)))

\* the fallback dropped: a token that names neither direction is passed on
_normalize_direction_noFallback(v) ==
    With(Lower(Strip(v)), LAMBDA s :
        IF s \in {"credit", "cr", "c", "in", "inflow", "income"} THEN "credit"
        ELSE IF s \in {"debit", "dr", "d", "out", "outflow", "expense"} THEN "debit"
        ELSE s)

\* main._normalize_direction
_normalize_direction(v) ==
    With(Lower(Strip(v)), LAMBDA s :
        IF s \in {"credit", "cr", "c", "in", "inflow", "income"} THEN "credit"
        ELSE IF s \in {"debit", "dr", "d", "out", "outflow", "expense"} THEN "debit"
        ELSE "debit")

\* a zero amount taken for a debit
SignDirection_zeroDebit(x) == IF x > 0 THEN "credit" ELSE "debit"

\* "credit" if x >= 0 else "debit"
SignDirection(x) == IF x >= 0 THEN "credit" ELSE "debit"

\* main.normalize_transactions, lines 180-181: an empty category is derived
\* from the direction
FillCategory(category0, direction0) ==
    With2(category0, direction0, LAMBDA category, direction :
        IF category = "" /\ direction = "credit" THEN "revenue"
        ELSE IF category = "" /\ direction = "debit" THEN "expense"
        ELSE category)

Txn(date, description, category, direction, amount) ==
    [txn_date |-> date, description |-> description, category |-> category,
     direction |-> direction, amount |-> amount]

\* the direction column ignored: the direction always read off the sign
RowMain_signOnly(m, date, cDesc, cCat, cDir, cAmt) ==
    With(_safe_float(cAmt), LAMBDA amt :
        With(SignDirection(amt), LAMBDA direction0 :
            LET description0 == IF m.description # None THEN AsTypeStr(cDesc) ELSE ""
                category0 == IF m.category # None THEN Lower(AsTypeStr(cCat)) ELSE ""
                category1 == FillCategory(category0, direction0)
            IN  Txn(date,
                    Slice(Strip(description0), DescMax),
                    Slice(Strip(category1), CatMax),
                    Lower(Strip(direction0)),
                    Abs(amt))))

\* one output row of main.normalize_transactions (lines 169-185), given the
\* row's cells under the resolved columns (NaN stands in for an absent column)
RowMain(m, date, cDesc, cCat, cDir, cAmt) ==
    With(_safe_float(cAmt), LAMBDA amt :
        With(IF m.direction # None THEN _normalize_direction(AsTypeStr(cDir))
             ELSE SignDirection(amt), LAMBDA direction0 :
            LET description0 == IF m.description # None THEN AsTypeStr(cDesc) ELSE ""
                category0 == IF m.category # None THEN Lower(AsTypeStr(cCat)) ELSE ""
                category1 == FillCategory(category0, direction0)
            IN  Txn(date,
                    Slice(Strip(description0), DescMax),
                    Slice(Strip(category1), CatMax),
                    Lower(Strip(direction0)),
                    Abs(amt))))

Result(status, error, rows, detected) ==
    [status |-> status, error |-> error, rows |-> rows, detected |-> detected]

CellAt(d, columns, name0, i) ==
    With(name0, LAMBDA name : IF name = None THEN NaN ELSE Column(d, columns, name)[i])

\* main.normalize_transactions
main_normalize_transactions(d0) ==
    With(d0, LAMBDA d :
        IF d.rows = <<>> \/ d.columns = <<>>
        THEN Result("ok", "", <<>>, NoMapMain)
        ELSE With2(DetectMain(d.columns), Len(d.rows), LAMBDA m, n :
            IF m.date = None \/ m.amount = None
            THEN Result("error", "MissingRequiredField", <<>>, m)
            ELSE With(<<>> \o [i \in 1..n |-> _parse_date_any(CellAt(d, d.columns, m.date, i))],
                      LAMBDA dates :
                IF \E i \in 1..n : ~dates[i].ok
                THEN Result("error", "InvalidDate", <<>>, m)
                ELSE Result("ok", "",
                            <<>> \o [i \in 1..n |->
                                RowMain(m, dates[i].v,
                                        CellAt(d, d.columns, m.description, i),
                                        CellAt(d, d.columns, m.category, i),
                                        CellAt(d, d.columns, m.direction, i),
                                        CellAt(d, d.columns, m.amount, i))],
                            m))))

\* pd.to_numeric(x, errors="coerce") followed by fillna(0), for one cell
ToNumeric(x0) ==
    With(x0, LAMBDA x :
        IF x.t = "num" THEN x.v
        ELSE IF x.t = "str" /\ Strip(x.s) = x.s
             THEN With(PyFloat(x.s), LAMBDA f : IF f.ok THEN f.v ELSE 0)
        ELSE 0)

\* utils.normalize_transactions, lines 61-71: amount and direction of a row
AmountDirectionUtils(m, cAmt, cDebit, cCredit) ==
    IF m.amount # None
    THEN With(ToNumeric(cAmt), LAMBDA amount :
             [direction |-> SignDirection(amount), amount |-> Abs(amount)])
    ELSE With2(IF m.debit # None THEN ToNumeric(cDebit) ELSE 0,
               IF m.credit # None THEN ToNumeric(cCredit) ELSE 0, LAMBDA debit, credit :
             [direction |-> IF credit > debit THEN "credit" ELSE "debit",
              amount |-> Abs(credit - debit)])

\* one output row of utils.normalize_transactions (lines 77-88)
RowUtils(m, date, cDesc, cCat, cAmt, cDebit, cCredit) ==
    With(AmountDirectionUtils(m, cAmt, cDebit, cCredit), LAMBDA ad :
        LET description == IF m.description # None THEN AsTypeStr(cDesc) ELSE ""
        IN  Txn(date, Strip(description), Lower(Strip(AsTypeStr(cCat))), ad.direction, ad.amount))

\* utils.normalize_transactions.  Without a category column the name
\* "category" is bound to the text "uncategorized" (line 77) and line 84
\* calls .fillna on that text: AttributeError.
utils_normalize_transactions(d0) ==
    With(d0, LAMBDA d :
    With2(StripAll(d.columns), DetectUtils(d.columns), LAMBDA columns, m :
    With(Len(d.rows), LAMBDA n :
        IF m.date = None
        THEN Result("error", "MissingRequiredField", <<>>, m)
        ELSE IF m.amount = None /\ m.debit = None /\ m.credit = None
        THEN Result("error", "MissingRequiredField", <<>>, m)
        ELSE With(<<>> \o ToDatetimeColumn(<<>> \o [i \in 1..n |-> CellAt(d, columns, m.date, i)]),
                  LAMBDA dates :
            IF \E i \in 1..n : dates[i] = NaT
            THEN Result("error", "UnparseableDates", <<>>, m)
            ELSE IF m.category = None
            THEN Result("error", "AttributeError", <<>>, m)
            ELSE Result("ok", "",
                        <<>> \o [i \in 1..n |->
                            RowUtils(m, dates[i],
                                     CellAt(d, columns, m.description, i),
                                     CellAt(d, columns, m.category, i),
                                     CellAt(d, columns, m.amount, i),
                                     CellAt(d, columns, m.debit, i),
                                     CellAt(d, columns, m.credit, i))],
                        m)))))

NotCalled == Result("none", "", <<>>, NoMapMain)

-----------------------------------------------------------------------------
(* Inputs of the normalizers: bounded families of datasets.                *)

MaxRows == 2

MaxCols == 3

RECURSIVE Product(_)
Product(pools) ==
    IF pools = <<>> THEN {<<>>}
    ELSE {<<c>> \o r : c \in {Head(pools)[k] : k \in 1..Len(Head(pools))},
                       r \in Product(Tail(pools))}

RECURSIVE RowSeqs(_, _)
RowSeqs(R, k) == IF k = 0 THEN {<<>>} ELSE {<<r>> \o rs : r \in R, rs \in RowSeqs(R, k - 1)}

\* the datasets of a layout: its columns, and up to MaxRows rows whose cells
\* are drawn column by column from the layout's pools
DatasetsOf(layout) ==
    {[columns |-> layout.columns, rows |-> rs] :
        rs \in UNION {RowSeqs(Product(layout.pools), k) : k \in 1..MaxRows}}

OneDate == <<Str("2024-01-15")>>

RowLayouts ==
    { [columns |-> <<"date", "amount">>,
       pools |-> <<OneDate,
                   <<Num(-50000), Num(0), Num(1250), Str("1,500"), Str("-2,000.50"),
                     Str("abc"), NaN>> >>],
      [columns |-> <<"Date", "Amount", "Category">>,
       pools |-> <<OneDate, <<Num(-50000), Num(1250)>>,
                   <<NaN, Str("  "), Str("Sales"), Str("revenue")>> >>],
      [columns |-> <<"date", "amount", "direction">>,
       pools |-> <<OneDate, <<Num(-50000), Num(1250)>>,
                   <<Str("CR"), Str(" Credit "), Str("debit"), Str("xyz"), NaN>> >>],
      [columns |-> <<"txn_date", "amt", "drcr", "type", "narration">>,
       pools |-> <<OneDate, <<Num(-70000)>>, <<Str("cr"), Str("D")>>,
                   <<NaN, Str("Rent")>>, <<NaN, Str(" Paid rent ")>> >>],
      [columns |-> <<"date", "debit", "credit", "category">>,
       pools |-> <<OneDate, <<NaN, Num(-50000), Num(30000)>>,
                   <<NaN, Num(20000)>>, <<Str("Rent")>> >>],
      [columns |-> <<"value_date", "withdrawal", "ledger">>,
       pools |-> <<OneDate, <<NaN, Num(-50000), Num(30000), Str("1,000")>>,
                   <<NaN, Str(" Office ")>> >>],
      [columns |-> <<"date", "amount", "account">>,
       pools |-> <<OneDate,
                   <<Num(-50000), Num(0), Num(1250), Str("250"), Str("1,500"), NaN>>,
                   <<Str("Sales")>> >>] }

DateLayouts ==
    { [columns |-> <<"date", "amount", "category">>,
       pools |-> << <<Str("01/02/2024"), Str("2024-02-01"), Str("13/02/2024"),
                      Str("02/13/2024"), Str("31/02/2024"), Str("01-02-2024"),
                      Str("abc"), NaN, DateCell(20240201)>>,
                    <<Num(1250)>>, <<Str("Sales")>> >>] }

\* headers a file may carry, each with the cell its column holds
HeaderPool ==
    << [h |-> "Date", c |-> Str("2024-01-15")],
       [h |-> "date", c |-> Str("2024-02-20")],
       [h |-> " txn_date ", c |-> Str("2024-03-05")],
       [h |-> "update", c |-> Str("2024-05-25")],
       [h |-> " AMOUNT", c |-> Num(-50000)],
       [h |-> "value", c |-> Num(1250)],
       [h |-> "CR", c |-> Num(70000)],
       [h |-> "Type", c |-> Str("Rent")],
       [h |-> "Category", c |-> Str("Sales")],
       [h |-> "DrCr", c |-> Str("CR")] >>

\* the members of a set of indices, ascending
RECURSIVE Ascending(_)
Ascending(I) ==
    IF I = {} THEN <<>>
    ELSE LET lo == CHOOSE i \in I : \A k \in I : i <= k
         IN  <<lo>> \o Ascending(I \ {lo})

\* the datasets built from up to MaxCols headers of the pool, in pool order,
\* with the one row of the headers' cells
HeaderDatasets ==
    {[columns |-> [j \in 1..Len(q) |-> HeaderPool[q[j]].h],
      rows |-> <<[j \in 1..Len(q) |-> HeaderPool[q[j]].c]>>] :
        q \in {Ascending(I) : I \in {X \in SUBSET (1..Len(HeaderPool)) :
                                        Cardinality(X) \in 1..MaxCols}}}

\* a file of headers and no row
EmptyDatasets == {[columns |-> d.columns, rows |-> <<>>] : d \in HeaderDatasets}

\* the permutations of 1..n
Perms(n) == {p \in [1..n -> 1..n] : \A i, j \in 1..n : p[i] = p[j] => i = j}

\* the dataset with column p[j] moved to position j
Permute(d, p) ==
    [columns |-> [j \in 1..Len(d.columns) |-> d.columns[p[j]]],
     rows |-> [i \in 1..Len(d.rows) |-> [j \in 1..Len(d.columns) |-> d.rows[i][p[j]]]]]

NoTxns == EmptyBag

\* a request that sent nothing the model keeps, a response without a body
NoInput == [kind |-> "none"]

NoBody == [kind |-> "none"]

\* no request served yet
Idle == [op |-> "", status |-> 0, count |-> 0, input |-> NoInput, body |-> NoBody]

\* a dataset of the row or date families in its own column order, or a
\* dataset of the header family together with a permutation of its columns
InitNorm ==
    /\ \/ /\ df \in UNION {DatasetsOf(l) : l \in RowLayouts \cup DateLayouts} \cup EmptyDatasets
          /\ dfP = df
       \/ /\ df \in HeaderDatasets
          /\ \E p \in Perms(Len(df.columns)) : dfP = Permute(df, p)
    /\ norm = NotCalled
    /\ normU = NotCalled
    /\ normP = NotCalled
    /\ normUP = NotCalled
    /\ txns = NoTxns
    /\ invoices = <<>>
    /\ audit = <<>>
    /\ last = Idle
    /\ inflight = <<>>

\* main.normalize_transactions applied to the dataset and to its permutation
NormalizeMain ==
    /\ norm = NotCalled
    /\ norm' = main_normalize_transactions(df)
    /\ normP' = main_normalize_transactions(dfP)
    /\ UNCHANGED <<df, dfP, normU, normUP, txns, invoices, audit, last, inflight>>

\* utils.normalize_transactions applied to the dataset and to its permutation
NormalizeUtils ==
    /\ normU = NotCalled
    /\ normU' = utils_normalize_transactions(df)
    /\ normUP' = utils_normalize_transactions(dfP)
    /\ UNCHANGED <<df, dfP, norm, normP, txns, invoices, audit, last, inflight>>

NextNorm == NormalizeMain \/ NormalizeUtils

SpecNorm == InitNorm /\ [][NextNorm]_vars

-----------------------------------------------------------------------------
(* Properties of the normalizers, checked under SpecNorm.                  *)

MainCalled == norm.status # "none"

UtilsCalled == normU.status # "none"

RowIdx == 1..Len(df.rows)

\* the cell of row i under the column main resolved for a role
InMain(role, i) == CellAt(df, df.columns, norm.detected[role], i)

\* the cell of row i under the column utils resolved for a role
InUtils(role, i) == CellAt(df, StripAll(df.columns), normU.detected[role], i)

DerivedCategory(direction) == IF direction = "credit" THEN "revenue" ELSE "expense"

\* C3 (as claimed): in the output of either normalizer, every row without an
\* explicit category (no category column, or a missing category value) has
\* category revenue when its direction is credit and expense when it is
\* debit, and no row has an empty category.
C3_DerivedCategoryEverywhere ==
    /\ norm.status = "ok" =>
          \A i \in RowIdx :
              /\ (norm.detected.category = None \/ InMain("category", i).t = "nan")
                    => norm.rows[i].category = DerivedCategory(norm.rows[i].direction)
              /\ norm.rows[i].category # ""
    /\ normU.status = "ok" =>
          \A i \in RowIdx :
              /\ (normU.detected.category = None \/ InUtils("category", i).t = "nan")
                    => normU.rows[i].category = DerivedCategory(normU.rows[i].direction)
              /\ normU.rows[i].category # ""

CreditTokens == {"credit", "cr", "c", "in", "inflow", "income"}

\* the direction cell, trimmed and lower-cased, names a credit
IsCreditToken(c) == c.t = "str" /\ Lower(Strip(c.s)) \in CreditTokens

\* C5: when main resolves a direction column, each row's direction is read
\* from that column (credit for a credit token, debit otherwise) whatever the
\* sign of the amount, and the amount is the absolute value of the amount
\* column.
C5_DirectionColumnOverrides ==
    (norm.status = "ok" /\ norm.detected.direction # None) =>
        \A i \in RowIdx :
            /\ norm.rows[i].direction = (IF IsCreditToken(InMain("direction", i))
                                         THEN "credit" ELSE "debit")
            /\ InMain("amount", i).t = "num"
                  => norm.rows[i].amount = Abs(InMain("amount", i).v)

\* C5 witness: a row with amount -500 and direction token CR came out as a
\* credit of 500, and a row with amount 12.50 and an unknown token as a debit.
C5_Witness ==
    /\ norm.status = "ok" /\ norm.detected.direction # None
    /\ \E i, k \in RowIdx :
          /\ InMain("amount", i) = Num(-50000) /\ InMain("direction", i) = Str("CR")
          /\ norm.rows[i].direction = "credit" /\ norm.rows[i].amount = 50000
          /\ InMain("amount", k) = Num(1250) /\ InMain("direction", k) = Str("xyz")
          /\ norm.rows[k].direction = "debit" /\ norm.rows[k].amount = 1250

\* the number a debit or credit cell holds, 0 when the cell is missing
Held(c) == IF c.t = "num" THEN c.v ELSE 0

\* C6 (as claimed): with separate debit and credit columns and no amount
\* column, each row's direction is that of the column holding the larger
\* magnitude and its amount is |credit - debit|.
C6_LargerMagnitudeDecides ==
    (normU.status = "ok" /\ normU.detected.amount = None) =>
        \A i \in RowIdx :
            LET debit == Held(InUtils("debit", i))
                credit == Held(InUtils("credit", i))
            IN  (InUtils("debit", i).t \in {"num", "nan"} /\ InUtils("credit", i).t \in {"num", "nan"}) =>
                    /\ normU.rows[i].amount = Abs(credit - debit)
                    /\ Abs(credit) > Abs(debit) => normU.rows[i].direction = "credit"
                    /\ Abs(debit) > Abs(credit) => normU.rows[i].direction = "debit"

\* C7 (as claimed): a normalizer fails with the missing-required-field error
\* exactly when it resolves no date column or no amount representation, and
\* fails for no other reason than that or an unparseable date; in particular
\* not for an absent description, category or direction column.
C7_OnlyRequiredFieldsFail ==
    /\ (MainCalled /\ df.rows # <<>>) =>
          /\ norm.error = "MissingRequiredField"
                <=> (DetectMain(df.columns).date = None \/ DetectMain(df.columns).amount = None)
          /\ norm.status = "error" => norm.error \in {"MissingRequiredField", "InvalidDate"}
    /\ UtilsCalled =>
          /\ normU.error = "MissingRequiredField"
                <=> \/ normU.detected.date = None
                    \/ /\ normU.detected.amount = None
                       /\ normU.detected.debit = None
                       /\ normU.detected.credit = None
          /\ normU.status = "error" => normU.error \in {"MissingRequiredField", "UnparseableDates"}

Range(q) == {q[i] : i \in 1..Len(q)}

RolesMain == {"date", "description", "category", "direction", "amount"}

RolesUtils == {"date", "description", "amount", "debit", "credit", "category"}

\* a role resolved to column c under the comparison key(.): c is a column
\* whose key is an alias of the role, no earlier alias of the role is the key
\* of any column, and the role is unresolved only when no column's key is one
\* of its aliases
ResolvedBy(columns, aliases, c, Key(_)) ==
    /\ c # None =>
          /\ c \in Range(columns)
          /\ \E a \in 1..Len(aliases) :
                /\ Key(c) = aliases[a]
                /\ \A b \in 1..(a - 1) : \A h \in Range(columns) : Key(h) # aliases[b]
    /\ c = None => \A h \in Range(columns) : Key(h) \notin Range(aliases)

\* C8 (as claimed): each role is mapped to a column whose header, lower-cased,
\* exactly equals one of the role's aliases; among several aliases present the
\* earliest in the role's list wins; a role with no matching alias is left
\* unresolved.
C8_ExactCaseInsensitive ==
    /\ (MainCalled /\ df.rows # <<>>) =>
          \A r \in RolesMain : ResolvedBy(df.columns, MainAliases[r], norm.detected[r], Lower)
    /\ UtilsCalled =>
          \A r \in RolesUtils :
              ResolvedBy(StripAll(df.columns), COLUMN_ALIASES[r], normU.detected[r], Lower)

\* C8 (amended): each role is mapped to a column whose header, trimmed of
\* surrounding whitespace and lower-cased, exactly equals one of the role's
\* aliases (never a substring match); among several aliases present the
\* earliest in the role's list wins; a role with no matching alias is left
\* unresolved.
C8_TrimmedCaseInsensitive ==
    /\ (MainCalled /\ df.rows # <<>>) =>
          \A r \in RolesMain : ResolvedBy(df.columns, MainAliases[r], norm.detected[r], KeyUtils)
    /\ UtilsCalled =>
          \A r \in RolesUtils :
              ResolvedBy(StripAll(df.columns), COLUMN_ALIASES[r], normU.detected[r], KeyUtils)

\* C8 witness: with the headers "date", " txn_date " and " AMOUNT" both
\* normalizers resolved the date role to "date" (the earlier alias) and the
\* amount role to the padded upper-case header.
C8_Witness ==
    /\ MainCalled /\ UtilsCalled
    /\ Range(df.columns) = {"date", " txn_date ", " AMOUNT"}
    /\ df.rows # <<>>
    /\ norm.detected.date = "date" /\ norm.detected.amount = " AMOUNT"
    /\ normU.detected.date = "date" /\ normU.detected.amount = "AMOUNT"

\* C9 (as claimed): the field mapping detected and the batch produced are the
\* same for the dataset and for every permutation of its columns.
C9_ColumnOrderIndependent ==
    /\ MainCalled => normP = norm
    /\ UtilsCalled => normUP = normU

\* the date Python reads s as under "%d/%m/%Y", and under "%m/%d/%Y"
DayFirst(s) == Strptime(s, "/", "DMY")

MonthFirst(s) == Strptime(s, "/", "MDY")

\* C10 (as claimed): in the output of either normalizer an ISO date is read
\* as such, a slash date that is a valid day-first date is read day-first (so
\* 01/02/2024 is 1 February), and the month-first reading is used only when
\* the day-first one is no date.
C10_DayFirstEverywhere ==
    /\ norm.status = "ok" =>
          \A i \in RowIdx :
              LET c == InMain("date", i)
              IN  c.t = "str" =>
                      /\ Strptime(c.s, "-", "YMD").ok => norm.rows[i].txn_date = Strptime(c.s, "-", "YMD").v
                      /\ DayFirst(c.s).ok => norm.rows[i].txn_date = DayFirst(c.s).v
                      /\ (~DayFirst(c.s).ok /\ MonthFirst(c.s).ok)
                            => norm.rows[i].txn_date = MonthFirst(c.s).v
    /\ normU.status = "ok" =>
          \A i \in RowIdx :
              LET c == InUtils("date", i)
              IN  c.t = "str" =>
                      /\ Strptime(c.s, "-", "YMD").ok => normU.rows[i].txn_date = Strptime(c.s, "-", "YMD").v
                      /\ DayFirst(c.s).ok => normU.rows[i].txn_date = DayFirst(c.s).v
                      /\ (~DayFirst(c.s).ok /\ MonthFirst(c.s).ok)
                            => normU.rows[i].txn_date = MonthFirst(c.s).v

-----------------------------------------------------------------------------
(* Pattern matching: the regular expressions of the PDF and OCR parsers,   *)
(* matched as Python's re matches them.                                    *)

\* \w of an ASCII text
IsWord(c) == IsAlnum(c) \/ c = "_"

\* \b at index i: exactly one of the characters before and at i is a word
\* character
Boundary(s, i) ==
    LET before == i > 1 /\ i - 1 <= Len(s) /\ IsWord(Ch(s, i - 1))
        at == i >= 1 /\ i <= Len(s) /\ IsWord(Ch(s, i))
    IN  before # at

\* a fixed-length pattern at index i: "d" is \d, "A" is [A-Z], "X" is
\* [A-Z0-9], any other character is itself
ShapeAt(s0, i0, shape) ==
    With2(s0, i0, LAMBDA s, i :
        /\ i + Len(shape) - 1 <= Len(s)
        /\ \A k \in 1..Len(shape) :
              With2(Ch(s, i + k - 1), Ch(shape, k), LAMBDA c, p :
                  IF p = "d" THEN IsDigit(c)
                  ELSE IF p = "A" THEN IsUpper(c)
                  ELSE IF p = "X" THEN IsUpper(c) \/ IsDigit(c)
                  ELSE c = p))

\* re.search of a fixed-length pattern: the index of the leftmost match, 0
\* when there is none
SearchShape(s0, shape) ==
    With(s0, LAMBDA s :
        With({i \in 1..Len(s) : ShapeAt(s, i, shape)},
             LAMBDA hits : IF hits = {} THEN 0 ELSE Min(hits)))

\* a literal word at index i, compared case-insensitively (re.IGNORECASE)
WordAt(s0, i0, w) ==
    With2(s0, i0, LAMBDA s, i :
        i + Len(w) - 1 <= Len(s) /\ Lower(SubSeq(s, i, i + Len(w) - 1)) = w)

\* s.split(): the fields between runs of whitespace
RECURSIVE SplitWs(_)
SplitWs(s) ==
    With(LStrip(s), LAMBDA t :
        IF t = "" THEN <<>>
        ELSE With(Span(t, 1, LAMBDA c : ~IsSpace(c)),
                  LAMBDA e : <<SubSeq(t, 1, e - 1)>> \o SplitWs(SubSeq(t, e, Len(t)))))

\* the stripped non-empty lines of a text
RECURSIVE StrippedLines(_)
StrippedLines(parts0) ==
    With(parts0, LAMBDA parts :
        IF parts = <<>> THEN <<>>
        ELSE With(Strip(Head(parts)),
                  LAMBDA line : (IF line = "" THEN <<>> ELSE <<line>>)
                                \o StrippedLines(Tail(parts))))

-----------------------------------------------------------------------------
(* PDF statement import: main.parse_pdf_transactions_text.                 *)

\* date_re: the line starts with dddd-dd-dd, dd/dd/dddd or dd-dd-dddd
DateReSearch(line0) ==
    With(line0, LAMBDA line :
        \/ ShapeAt(line, 1, "dddd-dd-dd")
        \/ ShapeAt(line, 1, "dd/dd/dddd")
        \/ ShapeAt(line, 1, "dd-dd-dddd"))

\* the end (exclusive) of a match of \d[\d,]*\.?\d* whose first digit is at i
NumEnd(s, i) ==
    With(Span(s, i + 1, LAMBDA c : IsDigit(c) \/ c = ","), LAMBDA a :
        Span(s, IF a <= Len(s) /\ Ch(s, a) = "." THEN a + 1 ELSE a, IsDigit))

\* re.findall(r"[-]?\d[\d,]*\.?\d*", s) from index i on: the matches, left
\* to right, none overlapping
RECURSIVE FindNums(_, _)
FindNums(s0, i0) ==
    With2(s0, i0, LAMBDA s, i :
        IF i > Len(s) THEN <<>>
        ELSE IF IsDigit(Ch(s, i))
             THEN With(NumEnd(s, i), LAMBDA e : <<SubSeq(s, i, e - 1)>> \o FindNums(s, e))
        ELSE IF Ch(s, i) = "-" /\ i < Len(s) /\ IsDigit(Ch(s, i + 1))
             THEN With(NumEnd(s, i + 1), LAMBDA e : <<SubSeq(s, i, e - 1)>> \o FindNums(s, e))
        ELSE FindNums(s, Span(s, i + 1, LAMBDA c : ~IsDigit(c) /\ c # "-")))

\* PdfRow taking the first match of the line for the amount
PdfRow_firstNumber(line0) ==
    With(line0, LAMBDA line :
        IF ~DateReSearch(line) THEN Fail
        ELSE With(SplitWs(line)[1], LAMBDA raw_date :
             With2(_parse_date_any(Str(raw_date)), FindNums(line, 1), LAMBDA txn_date, nums :
                 IF ~txn_date.ok \/ nums = <<>> THEN Fail
                 ELSE With2(PyFloat(Replace(nums[1], ",", "")),
                            IF Contains(Upper(line), " DR") \/ Contains(Upper(line), "DEBIT")
                            THEN "debit" ELSE "credit",
                            LAMBDA amt, direction :
                         IF ~amt.ok THEN Fail
                         ELSE Ok(Txn(txn_date.v,
                                     Slice(Strip(Replace(line, raw_date, "")), DescMax),
                                     IF direction = "credit" THEN "revenue" ELSE "expense",
                                     direction, Abs(amt.v)))))))

\* the row extracted from one line, not ok when the line is skipped
PdfRow(line0) ==
    With(line0, LAMBDA line :
        IF ~DateReSearch(line) THEN Fail
        ELSE With(SplitWs(line)[1], LAMBDA raw_date :
             With2(_parse_date_any(Str(raw_date)), FindNums(line, 1), LAMBDA txn_date, nums :
                 IF ~txn_date.ok THEN Fail
                 ELSE IF nums = <<>> THEN Fail
                 ELSE With2(PyFloat(Replace(nums[Len(nums)], ",", "")), Upper(line),
                            LAMBDA amt, u :
                     With(IF Contains(u, " DR") \/ Contains(u, "DEBIT")
                          THEN "debit" ELSE "credit", LAMBDA direction :
                         LET category == IF direction = "credit" THEN "revenue" ELSE "expense"
                             desc == Strip(Replace(line, raw_date, ""))
                         IN  IF ~amt.ok THEN Fail
                             ELSE Ok(Txn(txn_date.v, Slice(desc, DescMax), category,
                                         direction, Abs(amt.v))))))))

\* PdfRows giving up at the first line that yields no row
RECURSIVE PdfRows_stopAtSkipped(_)
PdfRows_stopAtSkipped(lines0) ==
    With(lines0, LAMBDA lines :
        IF lines = <<>> THEN <<>>
        ELSE With(PdfRow(Head(lines)), LAMBDA row :
                 IF row.ok THEN <<row.v>> \o PdfRows_stopAtSkipped(Tail(lines)) ELSE <<>>))

\* the rows of the lines of a statement, skipped lines left out
RECURSIVE PdfRows(_)
PdfRows(lines0) ==
    With(lines0, LAMBDA lines :
        IF lines = <<>> THEN <<>>
        ELSE With(PdfRow(Head(lines)), LAMBDA row :
                 (IF row.ok THEN <<row.v>> ELSE <<>>) \o PdfRows(Tail(lines))))

RECURSIVE PageLines(_)
PageLines(pages0) ==
    With(pages0, LAMBDA pages :
        IF pages = <<>> THEN <<>>
        ELSE StrippedLines(SplitOn(Head(pages), "\n")) \o PageLines(Tail(pages)))

\* main.parse_pdf_transactions_text of a PDF given by the text of its pages
parse_pdf_transactions_text(pages) == PdfRows(PageLines(pages))

-----------------------------------------------------------------------------
(* Invoice OCR: the field parsers of routes_invoice_ocr.                   *)

\* the three characters U+00E2 U+201A U+00B9 that stand in the source of the
\* total pattern where a rupee sign was meant, written here in ASCII: the
\* pattern requires the first two and makes the third optional
RupeeHead == "{|"

RupeeTail == "}"

\* routes_invoice_ocr._parse_date_from_text: NaT stands for None
DateOfPattern(text, shape) ==
    With(SearchShape(text, shape), LAMBDA i :
        IF i = 0 THEN Fail
        ELSE With(SubSeq(text, i, i + Len(shape) - 1), LAMBDA s :
                 IF Strptime(s, "-", "YMD").ok THEN Strptime(s, "-", "YMD")
                 ELSE IF Strptime(s, "/", "DMY").ok THEN Strptime(s, "/", "DMY")
                 ELSE Strptime(s, "-", "DMY")))

_parse_date_from_text(text0) ==
    With(text0, LAMBDA text :
        With(DateOfPattern(text, "dddd-dd-dd"), LAMBDA iso :
            IF iso.ok THEN iso.v
            ELSE With(DateOfPattern(text, "dd/dd/dddd"), LAMBDA slash :
                IF slash.ok THEN slash.v
                ELSE With(DateOfPattern(text, "dd-dd-dddd"), LAMBDA dash :
                    IF dash.ok THEN dash.v ELSE NaT))))

\* the end (exclusive) of [0-9]+(\.[0-9]{1,2})? from a digit at i
AmountEnd(t, i) ==
    With(Span(t, i, IsDigit), LAMBDA e :
        IF ~(e < Len(t) /\ Ch(t, e) = "." /\ IsDigit(Ch(t, e + 1))) THEN e
        ELSE IF e + 2 <= Len(t) /\ IsDigit(Ch(t, e + 2)) THEN e + 3 ELSE e + 2)

\* \s*[:\-]?\s*<rupee>\s*([0-9]+(\.[0-9]{1,2})?) from index j: group 2, ""
\* when the rest of the pattern does not match there
TotalRest(t, j) ==
    With(Span(t, j, IsSpace), LAMBDA j1 :
    With(Span(t, IF j1 <= Len(t) /\ Ch(t, j1) \in {":", "-"} THEN j1 + 1 ELSE j1, IsSpace),
         LAMBDA j3 :
    With(j3 + Len(RupeeHead), LAMBDA j4 :
    With(Span(t, IF ShapeAt(t, j4, RupeeTail) THEN j4 + Len(RupeeTail) ELSE j4, IsSpace),
         LAMBDA j6 :
        IF ShapeAt(t, j3, RupeeHead) /\ j6 <= Len(t) /\ IsDigit(Ch(t, j6))
        THEN SubSeq(t, j6, AmountEnd(t, j6) - 1)
        ELSE ""))))

\* the end (exclusive) of word1\s*word2 at index i, 0 when it is not there
TwoWordsAt(t, i, w1, w2) ==
    IF ~WordAt(t, i, w1) THEN 0
    ELSE With(Span(t, i + Len(w1), IsSpace),
              LAMBDA j : IF WordAt(t, j, w2) THEN j + Len(w2) ELSE 0)

\* the labelled total matched at index i: the alternatives grand\s*total,
\* total\s*amount, total in that order, each followed by the rest
TotalAt(t, i) ==
    With2(TwoWordsAt(t, i, "grand", "total"), TwoWordsAt(t, i, "total", "amount"),
          LAMBDA a1, a2 :
        With2(IF a1 # 0 THEN TotalRest(t, a1) ELSE "", IF a2 # 0 THEN TotalRest(t, a2) ELSE "",
              LAMBDA r1, r2 :
            IF r1 # "" THEN r1
            ELSE IF r2 # "" THEN r2
            ELSE IF WordAt(t, i, "total") THEN TotalRest(t, i + 5)
            ELSE ""))

\* the end (exclusive) of a match of \b[0-9]{3,}(?:\.[0-9]{1,2})?\b at i, 0
\* when there is none
BigNumEnd(t, i) ==
    With(Span(t, i, IsDigit), LAMBDA e :
        LET d1 == e < Len(t) /\ Ch(t, e) = "." /\ IsDigit(Ch(t, e + 1))
            d2 == d1 /\ e + 2 <= Len(t) /\ IsDigit(Ch(t, e + 2))
        IN  IF ~(Boundary(t, i) /\ i <= Len(t) /\ IsDigit(Ch(t, i)) /\ e - i >= 3) THEN 0
            ELSE IF d2 /\ Boundary(t, e + 3) THEN e + 3
            ELSE IF d1 /\ Boundary(t, e + 2) THEN e + 2
            ELSE IF Boundary(t, e) THEN e
            ELSE 0)

RECURSIVE FindBigNums(_, _)
FindBigNums(t0, i0) ==
    With2(t0, i0, LAMBDA t, i :
        IF i > Len(t) THEN <<>>
        ELSE With(BigNumEnd(t, i), LAMBDA e :
                 IF e # 0 THEN <<SubSeq(t, i, e - 1)>> \o FindBigNums(t, e)
                 ELSE FindBigNums(t, Span(t, i + 1, LAMBDA c : ~IsDigit(c)))))

\* max(nums, key=float): the first of the largest
MaxByFloat(nums0) ==
    With(nums0, LAMBDA nums :
        With(<<>> \o [i \in 1..Len(nums) |-> PyFloat(nums[i]).v], LAMBDA key :
            nums[Min({i \in 1..Len(nums) : \A j \in 1..Len(nums) : key[j] <= key[i]})]))

\* routes_invoice_ocr._parse_total_amount: not ok stands for None
_parse_total_amount(text) ==
    With(Replace(text, ",", " "), LAMBDA t :
        With({i \in 1..Len(t) : TotalAt(t, i) # ""}, LAMBDA hits :
            IF hits # {} THEN PyFloat(TotalAt(t, Min(hits)))
            ELSE With(FindBigNums(t, 1), LAMBDA nums :
                     IF nums = <<>> THEN Fail ELSE PyFloat(MaxByFloat(nums)))))

IsInvNoChar(c) == IsAlnum(c) \/ c \in {"-", "/"}

\* \s*[:\-]?\s*([A-Za-z0-9\-\/]+) from index j: group 2, "" when no match
InvNoRest(t, j) ==
    With(Span(t, j, IsSpace), LAMBDA j1 :
    With(Span(t, IF j1 <= Len(t) /\ Ch(t, j1) \in {":", "-"} THEN j1 + 1 ELSE j1, IsSpace),
         LAMBDA j3 :
    With2(Span(t, j3, IsInvNoChar), Span(t, j1, IsInvNoChar), LAMBDA e3, e1 :
        IF e3 > j3 THEN SubSeq(t, j3, e3 - 1)
        ELSE IF e1 > j1 THEN SubSeq(t, j1, e1 - 1)
        ELSE "")))

\* the invoice-number label matched at index i: invoice\s*no\.?, inv\s*no\.?,
\* invoice\s*# in that order, each followed by the rest
InvNoAt(t, i) ==
    LET Dot(j0) == With(j0, LAMBDA j :
                       IF j # 0 /\ j <= Len(t) /\ Ch(t, j) = "." THEN j + 1 ELSE j)
    IN  With2(Dot(TwoWordsAt(t, i, "invoice", "no")), Dot(TwoWordsAt(t, i, "inv", "no")),
              LAMBDA a1, a2 :
            With2(IF a1 # 0 THEN InvNoRest(t, a1) ELSE "",
                  IF a2 # 0 THEN InvNoRest(t, a2) ELSE "", LAMBDA r1, r2 :
                IF r1 # "" THEN r1
                ELSE IF r2 # "" THEN r2
                ELSE With(TwoWordsAt(t, i, "invoice", "#"),
                          LAMBDA a3 : IF a3 # 0 THEN InvNoRest(t, a3) ELSE "")))

\* routes_invoice_ocr._parse_invoice_number: "" stands for None
_parse_invoice_number(text0) ==
    With(text0, LAMBDA text :
        With({i \in 1..Len(text) : InvNoAt(text, i) # ""}, LAMBDA hits :
            IF hits = {} THEN None ELSE Slice(InvNoAt(text, Min(hits)), 64)))

\* routes_invoice_ocr._parse_gstin: "" stands for None
_parse_gstin(text) ==
    With(Upper(text), LAMBDA u :
        With({i \in 1..Len(u) : /\ ShapeAt(u, i, "ddAAAAAddddAXXX")
                                /\ Boundary(u, i) /\ Boundary(u, i + 15)}, LAMBDA hits :
            IF hits = {} THEN None ELSE SubSeq(u, Min(hits), Min(hits) + 14)))

\* routes_invoice_ocr._parse_vendor_name: "" stands for None
_parse_vendor_name(text) ==
    With(StrippedLines(SplitOn(text, "\n")), LAMBDA lines :
        IF lines = <<>> THEN None ELSE Slice(lines[1], 255))

-----------------------------------------------------------------------------
(* The store and the HTTP layer.                                           *)

\* date.today(): the day the requests are served
Today == MkDate(2024, 3, 2)

\* d - timedelta(days=1)
PrevDay(d) ==
    IF DayOf(d) > 1 THEN d - 1
    ELSE IF MonthOf(d) > 1
         THEN MkDate(YearOf(d), MonthOf(d) - 1, DaysInMonth(YearOf(d), MonthOf(d) - 1))
         ELSE MkDate(YearOf(d) - 1, 12, 31)

\* d - timedelta(days=k)
RECURSIVE DaysBefore(_, _)
DaysBefore(d, k) == IF k = 0 THEN d ELSE DaysBefore(PrevDay(d), k - 1)

\* the days of year y before its month m
RECURSIVE DaysBeforeMonth(_, _)
DaysBeforeMonth(y, m) ==
    IF m = 1 THEN 0 ELSE DaysBeforeMonth(y, m - 1) + DaysInMonth(y, m - 1)

\* the date n days after 1 January of year y
RECURSIVE DateFromYear(_, _)
DateFromYear(y, n) ==
    LET len == IF IsLeap(y) THEN 366 ELSE 365
    IN  IF n >= len THEN DateFromYear(y + 1, n - len)
        ELSE LET m == CHOOSE k \in 1..12 :
                          /\ DaysBeforeMonth(y, k) <= n
                          /\ (k = 12 \/ n < DaysBeforeMonth(y, k + 1))
             IN  MkDate(y, m, n - DaysBeforeMonth(y, m) + 1)

\* datetime.fromtimestamp(ts).date() for ts >= 0, the server clock on UTC
DateOfTimestamp(ts) == DateFromYear(1970, ts \div 86400)

\* tables "businesses" and "business_users" after two registrations: each
\* user owns the business of the same id (routes_auth.register)
Businesses == {[id |-> 1, owner_user_id |-> 1], [id |-> 2, owner_user_id |-> 2]}

BusinessUsers ==
    {[business_id |-> b.id, user_id |-> b.owner_user_id, role |-> "owner"] : b \in Businesses}

\* main.require_business_owner (and its copies in routes_gst and
\* routes_invoice_ocr): the status the request ends with, 200 to go on
require_business_owner(business_id, user_id) ==
    IF ~\E b \in Businesses : b.id = business_id THEN 404
    ELSE IF (CHOOSE b \in Businesses : b.id = business_id).owner_user_id # user_id THEN 403
    ELSE 200

\* rbac.require_role
require_role(business_id, user_id, allowed) ==
    LET rows == {r \in BusinessUsers : r.business_id = business_id /\ r.user_id = user_id}
    IN  IF rows = {} THEN 403
        ELSE IF (CHOOSE r \in rows : TRUE).role \notin allowed THEN 403
        ELSE 200

\* a row of table "transactions"
Stored(business_id, t) ==
    [business_id |-> business_id, txn_date |-> t.txn_date, description |-> t.description,
     category |-> t.category, direction |-> t.direction, amount |-> t.amount]

\* AddAll putting the batch in the place of the table
RECURSIVE AddAll_dropOld(_, _, _)
AddAll_dropOld(table, business_id, rows) ==
    IF rows = <<>> THEN EmptyBag
    ELSE SetToBag({Stored(business_id, Head(rows))})
             (+) AddAll_dropOld(table, business_id, Tail(rows))

\* db.add of every row of a batch
RECURSIVE AddAll(_, _, _)
AddAll(table, business_id, rows) ==
    IF rows = <<>> THEN table
    ELSE AddAll(table (+) SetToBag({Stored(business_id, Head(rows))}), business_id, Tail(rows))

\* audit.log_audit: the entry appended to table "audit_logs" (0 stands for
\* an entity_id of None)
log_audit(user_id, business_id, action, entity, entity_id, payload) ==
    [user_id |-> user_id, business_id |-> business_id, action |-> action,
     entity |-> entity, entity_id |-> entity_id, payload |-> payload]

\* a request served: what it read (input), its status code, the count it
\* reports (inserted, synced or detected rows) and the body it answered
Served(op, status, count, input, body) ==
    [op |-> op, status |-> status, count |-> count, input |-> input, body |-> body]

\* an ingestion request served: the response carries the count alone
Response(op, status, count) == Served(op, status, count, NoInput, NoBody)

EndsWith(s0, p) ==
    With(s0, LAMBDA s : Len(p) <= Len(s) /\ SubSeq(s, Len(s) - Len(p) + 1, Len(s)) = p)

-----------------------------------------------------------------------------
(* Requests: who calls, and the files and payloads sent.                   *)

MaxAudit == 2

\* (business_id, authenticated user): the owner, another user, and a
\* business that does not exist
Callers ==
    {[business_id |-> 1, user_id |-> 1],
     [business_id |-> 1, user_id |-> 2],
     [business_id |-> 3, user_id |-> 1]}

\* uploaded spreadsheets, given by the DataFrame pandas reads from them
UploadFiles ==
    { [filename |-> "bank.csv",
       df |-> [columns |-> <<"Date", "Amount", "DrCr", "Narration">>,
               rows |-> << <<Str("2024-01-15"), Num(Units(500)), Str("CR"), Str("Sale")>>,
                           <<Str("16/01/2024"), Num(Units(200)), Str("xyz"), NaN>> >>]],
      [filename |-> "book.XLSX",
       df |-> [columns |-> <<"txn_date", "amt", "direction">>,
               rows |-> << <<DateCell(20240120), Num(-Units(75)), NaN>>,
                           <<DateCell(20240121), Str("1,200.50"), Str(" Credit ")>> >>]],
      [filename |-> "signed.csv",
       df |-> [columns |-> <<"date", "amount", "category">>,
               rows |-> << <<Str("01/02/2024"), Num(-Units(500)), Str("Rent")>> >>]],
      [filename |-> "empty.csv",
       df |-> [columns |-> <<"date", "amount">>, rows |-> <<>>]],
      [filename |-> "noamount.csv",
       df |-> [columns |-> <<"date", "description">>,
               rows |-> << <<Str("2024-01-15"), Str("Sale")>> >>]],
      [filename |-> "baddate.csv",
       df |-> [columns |-> <<"date", "amount">>,
               rows |-> << <<Str("2024-01-15"), Num(Units(10))>>,
                           <<Str("soon"), Num(Units(20))>> >>]],
      [filename |-> "nodate.csv",
       df |-> [columns |-> <<"date", "amount">>,
               rows |-> << <<Str("2024-01-15"), Num(Units(10))>>,
                           <<NaN, Num(Units(20))>> >>]],
      [filename |-> "notes.txt",
       df |-> [columns |-> <<"date", "amount">>,
               rows |-> << <<Str("2024-01-15"), Num(Units(10))>> >>]] }

\* uploaded PDFs, given by the text pdfplumber extracts from their pages
PdfFiles ==
    { [filename |-> "stmt.pdf",
       pages |-> <<"Statement\n2024-01-15 Coffee 1,234.50 DR\n", "15/01/2024 Salary 50000">>],
      [filename |-> "atm.PDF", pages |-> <<"01-02-2024 ATM -500.00 debit">>],
      [filename |-> "refund.pdf", pages |-> <<"2024-01-15 Refund">>],
      [filename |-> "scan.pdf", pages |-> <<"">>],
      [filename |-> "mixed.pdf",
       pages |-> <<"2024-01-15 Coffee 12.00\n2024-13-45 Fee 10.00\nClosing balance">>],
      [filename |-> "void.pdf", pages |-> <<"31/02/2024 Fee 10.00">>],
      [filename |-> "payee.pdf",
       pages |-> <<"2024-01-16 Drishti Traders payment received 300.00">>],
      [filename |-> "stmt.csv", pages |-> <<"2024-01-15 Coffee 12.00">>] }

\* the text s written n times
RECURSIVE Repeated(_, _)
Repeated(s, n) == IF n = 0 THEN "" ELSE s \o Repeated(s, n - 1)

\* bodies of POST /gst/import: a JSON number is a num cell, a JSON string a
\* str cell; an absent key is an absent field
GstPayloads ==
    { [invoices |-> << [date |-> "2026-01-10", description |-> "GST Sale - Invoice 1",
                        amount |-> Num(Units(25000)), type |-> "sale"] >>],
      [invoices |-> << [date |-> "2026-01-11", amount |-> Str("1500.50")],
                       [date |-> "2026-1-12", description |-> "Stock",
                        amount |-> Num(Units(800)), type |-> "Purchase"] >>],
      [invoices |-> << [date |-> "2026-01-13", description |-> "Credit note",
                        amount |-> Num(-Units(500)), type |-> "sale"] >>],
      [invoices |-> << [date |-> "2026-01-14", amount |-> Num(Units(100)), type |-> "sale"],
                       [date |-> "14/01/2026", amount |-> Num(Units(200)), type |-> "sale"] >>],
      [invoices |-> << [date |-> "2026-01-15",
                        description |-> "Consulting: " \o Repeated("milestone; ", 24),
                        amount |-> Num(Units(700)), type |-> "sale"] >>],
      [invoices |-> << [description |-> "no date", amount |-> Num(Units(5))] >>],
      [invoices |-> <<>>],
      [note |-> "no invoices"] }

\* what integrations_razorpayx.list_transactions gives: it raises, or it
\* returns the JSON of the response (amount in paise, created_at in seconds)
RzpResponses ==
    { [raises |-> TRUE],
      [raises |-> FALSE,
       data |-> [items |-> << [amount |-> 150000, created_at |-> 1705276800,
                               type |-> "debit", description |-> " Vendor payout "],
                              [amount |-> -25000, created_at |-> 1709251199,
                               type |-> "Debit", narration |-> "Reversal"] >>]],
      [raises |-> FALSE, data |-> [items |-> << [type |-> "credit"] >>]],
      [raises |-> FALSE, data |-> [count |-> 0]] }

\* uploaded invoices, given by the text OCR reads from them
InvoiceFiles ==
    { [filename |-> "inv.png",
       text |-> "ACME Ltd\nInvoice No: INV-123\nDate 15/01/2024\nTotal: 500.00"],
      [filename |-> "bill.pdf",
       text |-> "Shop\n22AAAAA0000A1Z5\nGrand Total {|}1,234.50"],
      [filename |-> "memo.JPG", text |-> "thanks 12"],
      [filename |-> "inv.docx", text |-> "Total 900"] }

\* what bank_sync draws: random.randint(1000, 15000), random.choice of the
\* direction, random.randint(0, 5) days.  The handler looks at neither the
\* amount nor the offset, so one value of each range stands for all of it.
BankAmounts == {1000}

BankDayOffsets == {5}

BankDraws ==
    {[amt |-> a, direction |-> d, days |-> k] :
        a \in BankAmounts, d \in {"credit", "debit"}, k \in BankDayOffsets}

\* the sum of the values of a function with a finite domain
RECURSIVE SumOf(_)
SumOf(f) ==
    IF DOMAIN f = {} THEN 0
    ELSE LET x == CHOOSE y \in DOMAIN f : TRUE
         IN  f[x] + SumOf([y \in DOMAIN f \ {x} |-> f[y]])

\* FiveDraws of a loop that runs four times
FiveDraws_four == {m \in [BankDraws -> 0..4] : SumOf(m) = 4}

\* the outcomes of the five draws of one bank_sync call: how often each draw
\* came up (the order of the draws does not show in the table)
FiveDraws == {m \in [BankDraws -> 0..5] : SumOf(m) = 5}

-----------------------------------------------------------------------------
(* The handlers.  Each action is one request served from start to end.    *)

\* main.read_file_to_df: the file name carries an extension pandas is asked
\* to read (any other name ends the request in 400)
Supported(filename) ==
    With(Lower(filename), LAMBDA name :
        EndsWith(name, ".csv") \/ EndsWith(name, ".xlsx") \/ EndsWith(name, ".xls"))

\* main.normalize_transactions of the DataFrame of each file of the pool
Normalized == [f \in UploadFiles |-> main_normalize_transactions(f.df)]

\* the status an upload request ends with: 400 for an unsupported file name
\* or a normalization error
UploadStatus(auth, f, r) ==
    IF auth # 200 THEN auth
    ELSE IF ~Supported(f.filename) THEN 400
    ELSE IF r.status # "ok" THEN 400
    ELSE 200

\* POST /upload/preview (main.upload_preview); df and norm are the handler's
\* locals of those names, kept from the last request that got to read its file
UploadPreview ==
    \E c \in Callers, f \in UploadFiles :
      \E auth \in {require_business_owner(c.business_id, c.user_id)}, r \in {Normalized[f]} :
        \E status \in {UploadStatus(auth, f, r)} :
            /\ Len(audit) < MaxAudit
            /\ IF auth = 200 /\ Supported(f.filename)
               THEN df' = f.df /\ norm' = r
               ELSE UNCHANGED <<df, norm>>
            /\ last' = Response("upload_preview", status, IF status = 200 THEN Len(r.rows) ELSE 0)
            /\ UNCHANGED <<dfP, normU, normP, normUP, txns, invoices, audit, inflight>>

\* the status upload_commit ends with: db.commit() cannot bind a txn_date of
\* NaT to the date column, the exception ends the request in 500 before
\* log_audit is reached and nothing of the batch is stored
CommitStatus(auth, f, r) ==
    IF UploadStatus(auth, f, r) # 200 THEN UploadStatus(auth, f, r)
    ELSE IF \E i \in 1..Len(r.rows) : r.rows[i].txn_date = NaT THEN 500
    ELSE 200

\* POST /upload/commit (main.upload_commit)
UploadCommit ==
    \E c \in Callers, f \in UploadFiles :
      \E auth \in {require_business_owner(c.business_id, c.user_id)}, r \in {Normalized[f]} :
        \E status \in {CommitStatus(auth, f, r)} :
            /\ Len(audit) < MaxAudit
            /\ IF auth = 200 /\ Supported(f.filename)
               THEN df' = f.df /\ norm' = r
               ELSE UNCHANGED <<df, norm>>
            /\ IF status # 200
               THEN /\ last' = Response("upload_commit", status, 0)
                    /\ UNCHANGED <<txns, audit>>
               ELSE /\ txns' = AddAll(txns, c.business_id, r.rows)
                    /\ audit' = Append(audit,
                           log_audit(c.user_id, c.business_id, "UPLOAD_COMMIT", "transaction", 0,
                                     [filename |-> f.filename, inserted |-> Len(r.rows)]))
                    /\ last' = Response("upload_commit", 200, Len(r.rows))
            /\ UNCHANGED <<dfP, normU, normP, normUP, invoices, inflight>>

\* the rows extracted from each PDF of the pool
Extracted == [f \in PdfFiles |-> parse_pdf_transactions_text(f.pages)]

\* what pdf_commit read: the pages of the file once the owner check and the
\* check of the file name have passed (file.read() comes after both)
PdfRead(auth, f) ==
    IF auth = 200 /\ EndsWith(Lower(f.filename), ".pdf")
    THEN [kind |-> "pdf", pages |-> f.pages]
    ELSE NoInput

\* POST /upload/pdf/commit (main.pdf_commit)
PdfCommit ==
    \E c \in Callers, f \in PdfFiles :
      \E auth \in {require_business_owner(c.business_id, c.user_id)}, rows \in {Extracted[f]} :
        \E status \in {IF auth # 200 THEN auth
                       ELSE IF ~EndsWith(Lower(f.filename), ".pdf") THEN 400
                       ELSE IF rows = <<>> THEN 400
                       ELSE 200} :
            /\ Len(audit) < MaxAudit
            /\ IF status # 200
               THEN /\ last' = Served("pdf_commit", status, 0, PdfRead(auth, f), NoBody)
                    /\ UNCHANGED <<txns, audit>>
               ELSE /\ txns' = AddAll(txns, c.business_id, rows)
                    /\ audit' = Append(audit,
                           log_audit(c.user_id, c.business_id, "PDF_COMMIT", "transaction", 0,
                                     [filename |-> f.filename, inserted |-> Len(rows)]))
                    /\ last' = Served("pdf_commit", 200, Len(rows), PdfRead(auth, f), NoBody)
            /\ UNCHANGED <<df, dfP, norm, normU, normP, normUP, invoices, inflight>>

\* d.get(k, default) of a JSON object
Get(d, k, default) == IF k \in DOMAIN d THEN d[k] ELSE default

\* float(x) of a JSON value: a number is itself, a string is parsed
JsonFloat(x0) ==
    With(x0, LAMBDA x :
        IF x.t = "num" THEN Ok(x.v) ELSE IF x.t = "str" THEN PyFloat(x.s) ELSE Fail)

\* routes_gst.parse_date: strptime(d, "%Y-%m-%d")
parse_date(d) == Strptime(d, "-", "YMD")

\* the row gst_import builds from one invoice (lines 66-83), not ok when a
\* key is missing or a value does not parse (the request then ends in 500)
GstRow(inv0) ==
    With(inv0, LAMBDA inv :
        IF ~({"date", "amount"} \subseteq DOMAIN inv) THEN Fail
        ELSE With2(parse_date(inv.date), JsonFloat(inv.amount), LAMBDA date, amount :
            With(IF Lower(Get(inv, "type", "sale")) = "sale" THEN "credit" ELSE "debit",
                 LAMBDA direction :
                IF ~date.ok \/ ~amount.ok THEN Fail
                ELSE Ok(Txn(date.v, Get(inv, "description", "GST Entry"),
                            IF direction = "credit" THEN "revenue" ELSE "expense",
                            direction, amount.v)))))

\* the rows built from the invoices of a payload, in order
GstRows(invs) == <<>> \o [i \in 1..Len(invs) |-> GstRow(invs[i])]

\* POST /gst/import (routes_gst.gst_import)
GstImport ==
    \E c \in Callers, payload \in GstPayloads :
      \E auth \in {require_business_owner(c.business_id, c.user_id)},
         invs \in {Get(payload, "invoices", <<>>)} :
        \E built \in {GstRows(invs)} :
          \E status \in {IF auth # 200 THEN auth
                         ELSE IF invs = <<>> THEN 400
                         ELSE IF \E i \in 1..Len(invs) : ~built[i].ok THEN 500
                         ELSE 200},
             rows \in {<<>> \o [i \in 1..Len(invs) |-> built[i].v]} :
            /\ Len(audit) < MaxAudit
            /\ IF status # 200
               THEN /\ last' = Response("gst_import", status, 0)
                    /\ UNCHANGED <<txns, audit>>
               ELSE /\ txns' = AddAll(txns, c.business_id, rows)
                    /\ audit' = Append(audit,
                           log_audit(c.user_id, c.business_id, "GST_IMPORT", "gst", 0,
                                     [inserted |-> Len(rows)]))
                    /\ last' = Response("gst_import", 200, Len(rows))
            /\ UNCHANGED <<df, dfP, norm, normU, normP, normUP, invoices, inflight>>

\* the first of the values that is not empty (Python's a or b or c)
FirstTruthy(a, b, c) == IF a # "" THEN a ELSE IF b # "" THEN b ELSE c

\* the row sync_razorpayx builds from one item (lines 33-47); an amount in
\* paise is the same count of hundredths of a rupee
RzpRow(it0) ==
    With(it0, LAMBDA it :
        With2(Get(it, "created_at", 0),
              IF Get(it, "type", "") \in {"debit"} THEN "debit" ELSE "credit",
              LAMBDA created, direction :
            Txn(IF created # 0 THEN DateOfTimestamp(created) ELSE Today,
                Slice(Strip(FirstTruthy(Get(it, "description", ""), Get(it, "narration", ""),
                                        "RazorpayX")), 255),
                IF direction = "debit" THEN "expense" ELSE "revenue",
                direction,
                Abs(IF Get(it, "amount", 0) # 0 THEN it.amount ELSE 0))))

\* the rows built from the items of a response, in order
RzpRows(items) == <<>> \o [i \in 1..Len(items) |-> RzpRow(items[i])]

\* POST /bank/razorpayx/sync (routes_bank_real.sync_razorpayx)
RazorpaySync ==
    \E c \in Callers, resp \in RzpResponses :
      \E auth \in {require_role(c.business_id, c.user_id, {"owner", "accountant"})},
         items \in {IF resp.raises THEN <<>> ELSE Get(resp.data, "items", <<>>)} :
        \E status \in {IF auth # 200 THEN auth ELSE IF resp.raises THEN 400 ELSE 200},
           rows \in {RzpRows(items)} :
            /\ Len(audit) < MaxAudit
            /\ IF status # 200
               THEN /\ last' = Response("razorpayx_sync", status, 0)
                    /\ UNCHANGED <<txns, audit>>
               ELSE /\ txns' = AddAll(txns, c.business_id, rows)
                    /\ audit' = Append(audit,
                           log_audit(c.user_id, c.business_id, "RAZORPAYX_SYNC", "bank", 0,
                                     [inserted |-> Len(rows)]))
                    /\ last' = Response("razorpayx_sync", 200, Len(rows))
            /\ UNCHANGED <<df, dfP, norm, normU, normP, normUP, invoices, inflight>>

\* the fields parsed from the text of each invoice of the pool
Parsed ==
    [f \in InvoiceFiles |->
        [inv_date |-> _parse_date_from_text(f.text),
         total |-> _parse_total_amount(f.text),
         inv_no |-> _parse_invoice_number(f.text),
         gstin |-> _parse_gstin(f.text),
         vendor |-> _parse_vendor_name(f.text)]]

\* the file name passes the extension test of invoice_ocr_commit
Readable(filename) ==
    With(Lower(filename), LAMBDA name :
        \/ EndsWith(name, ".pdf") \/ EndsWith(name, ".png")
        \/ EndsWith(name, ".jpg") \/ EndsWith(name, ".jpeg"))

\* the row of table "invoices" built from the parsed fields p (lines 167-175)
OcrInvoice(business_id, text, p) ==
    [business_id |-> business_id, vendor_name |-> p.vendor,
     vendor_gstin |-> p.gstin, invoice_number |-> p.inv_no,
     invoice_date |-> p.inv_date, total_amount |-> p.total, raw_text |-> text]

\* the transaction built from the parsed fields p (lines 181-193)
OcrTxn(p) ==
    Txn(IF p.inv_date # NaT THEN p.inv_date ELSE Today,
        Strip("Invoice OCR " \o p.inv_no \o " " \o p.vendor),
        "expense", "debit", p.total.v)

\* POST /invoice/ocr/commit (routes_invoice_ocr.invoice_ocr_commit)
InvoiceOcrCommit ==
    \E c \in Callers, f \in InvoiceFiles, create_transaction \in BOOLEAN :
      \E auth \in {require_business_owner(c.business_id, c.user_id)}, p \in {Parsed[f]} :
        \E create \in {create_transaction /\ p.total.ok /\ p.total.v # 0} :
            /\ Len(audit) < MaxAudit
            /\ IF auth # 200 \/ ~Readable(f.filename)
               THEN /\ last' = Response("invoice_ocr_commit", IF auth # 200 THEN auth ELSE 400, 0)
                    /\ UNCHANGED <<txns, invoices, audit>>
               ELSE /\ invoices' = Append(invoices, OcrInvoice(c.business_id, f.text, p))
                    /\ txns' = IF create THEN AddAll(txns, c.business_id, <<OcrTxn(p)>>)
                               ELSE txns
                    /\ audit' = Append(audit,
                           log_audit(c.user_id, c.business_id, "INVOICE_OCR_COMMIT", "invoice",
                                     Len(invoices) + 1,
                                     [filename |-> f.filename, total_amount |-> p.total,
                                      invoice_number |-> p.inv_no]))
                    /\ last' = Response("invoice_ocr_commit", 200, IF create THEN 1 ELSE 0)
            /\ UNCHANGED <<df, dfP, norm, normU, normP, normUP, inflight>>

\* the rows one bank_sync call adds for an outcome m of its five draws
BankRows(business_id, m) ==
    LET row(d) == Stored(business_id,
                         Txn(DaysBefore(Today, d.days), "Bank Auto Sync",
                             IF d.direction = "credit" THEN "revenue" ELSE "expense",
                             d.direction, Units(d.amt)))
        drawn == {d \in BankDraws : m[d] > 0}
    IN  [r \in {row(d) : d \in drawn} |-> m[CHOOSE d \in drawn : row(d) = r]]

\* POST /bank/sync (main.bank_sync)
BankSync ==
    \E c \in Callers, m \in FiveDraws :
      \E auth \in {require_business_owner(c.business_id, c.user_id)} :
        /\ Len(audit) < MaxAudit
        /\ IF auth # 200
           THEN /\ last' = Response("bank_sync", auth, 0)
                /\ UNCHANGED <<txns, audit>>
           ELSE /\ txns' = txns (+) BankRows(c.business_id, m)
                /\ audit' = Append(audit,
                       log_audit(c.user_id, c.business_id, "BANK_SYNC", "transaction", 0,
                                 [inserted |-> 5]))
                /\ last' = Response("bank_sync", 200, 5)
        /\ UNCHANGED <<df, dfP, norm, normU, normP, normUP, invoices, inflight>>

-----------------------------------------------------------------------------
(* The metrics engine: read-only views of a business's transactions.       *)

\* TxnsOf without the filter on the business
TxnsOf_everyBusiness(table, business_id) == table

\* db.query(Transaction).filter(Transaction.business_id == business_id).all()
TxnsOf(table, business_id) ==
    [t \in {r \in BagToSet(table) : r.business_id = business_id} |-> table[t]]

\* sum(float(t.amount) for t in txns if keep(t))
SumWhere(B, keep(_)) == SumOf([t \in {r \in DOMAIN B : keep(r)} |-> B[t] * t.amount])

\* (t.direction or "").lower() == "credit"
IsCredit(t) == Lower(t.direction) = "credit"

\* (t.direction or "").lower() == "debit"
IsDebit(t) == Lower(t.direction) = "debit"

\* IsRevenue without the test of the direction
IsRevenue_anyDirection(t) == Lower(t.category) \in {"revenue", "expense"}

\* IsRevenue without the test of the category
IsRevenue_anyCredit(t) == Lower(t.direction) = "credit"

\* (t.category or "").lower() == "revenue" and (t.direction or "").lower() == "credit"
IsRevenue(t) == Lower(t.category) = "revenue" /\ IsCredit(t)

\* the four sums every metric starts from (main.kpis, lines 433-436)
Totals(B0) ==
    With(B0, LAMBDA B :
        [inflow |-> SumWhere(B, IsCredit),
         outflow |-> SumWhere(B, IsDebit),
         revenue |-> SumWhere(B, IsRevenue),
         expenses |-> SumWhere(B, IsDebit)])

\* n / d rounded to the nearest integer, a tie going to the even one:
\* round(x, 2) of a quotient counted in hundredths (d > 0)
RoundDiv(n0, d0) ==
    With2(n0 \div d0, n0 % d0, LAMBDA q, r :
        IF 2 * r < d0 THEN q
        ELSE IF 2 * r > d0 THEN q + 1
        ELSE IF q % 2 = 0 THEN q ELSE q + 1)

\* round(a / b * 100.0, 2) in hundredths of a percent (b > 0): a * 10000 / b
\* rounded, the division done in two steps of 100 to stay within 32 bits
Percent(a, b) ==
    With2((a * 100) \div b, (a * 100) % b, LAMBDA q, r : q * 100 + RoundDiv(r * 100, b))

\* the body of GET /kpis (main.kpis, lines 433-452); expense_ratio is counted
\* in hundredths of a percent and is not ok when it is None
KpisBody(business_id, B) ==
    With(Totals(B), LAMBDA s :
        [kind |-> "kpis",
         business_id |-> business_id,
         total_transactions |-> BagCardinality(B),
         total_inflow |-> s.inflow,
         total_outflow |-> s.outflow,
         net_cashflow |-> s.inflow - s.outflow,
         total_revenue |-> s.revenue,
         total_expenses |-> s.expenses,
         net_profit_simple |-> s.revenue - s.expenses,
         expense_ratio |-> IF s.revenue > 0 THEN Ok(Percent(s.expenses, s.revenue))
                           ELSE Fail])

\* f"{n:02d}" and f"{n:04d}" for n >= 0
Pad2(n) == (IF n < 10 THEN "0" ELSE "") \o NatStr(n)

Pad4(n) ==
    (IF n < 10 THEN "000" ELSE IF n < 100 THEN "00" ELSE IF n < 1000 THEN "0" ELSE "")
        \o NatStr(n)

\* t.txn_date.strftime("%Y-%m")
MonthKey(d) == Pad4(YearOf(d)) \o "-" \o Pad2(MonthOf(d))

\* Bucket adding every row to the bucket, whatever its month
Bucket_everyRow(B, m) ==
    With2(SumWhere(B, IsRevenue), SumWhere(B, IsDebit), LAMBDA revenue, expenses :
        [month |-> m, revenue |-> revenue, expenses |-> expenses,
         profit_simple |-> revenue - expenses])

\* one bucket of main.kpis_monthly (lines 470-481): the rows of month m
Bucket(B, m) ==
    With2(SumWhere(B, LAMBDA t : MonthKey(t.txn_date) = m /\ IsRevenue(t)),
          SumWhere(B, LAMBDA t : MonthKey(t.txn_date) = m /\ IsDebit(t)),
          LAMBDA revenue, expenses :
              [month |-> m, revenue |-> revenue, expenses |-> expenses,
               profit_simple |-> revenue - expenses])

\* main.kpis_monthly, lines 463-482: the buckets in the order of
\* sorted(buckets.keys()); keys of four-digit years sort as their months do
MonthlySeries(B0) ==
    With(B0, LAMBDA B :
        With(Ascending({t.txn_date \div 100 : t \in DOMAIN B}), LAMBDA ms :
            <<>> \o [i \in 1..Len(ms) |-> Bucket(B, MonthKey(ms[i] * 100 + 1))]))

\* the rating band of a score
Rating(s) ==
    IF s >= 80 THEN "Excellent"
    ELSE IF s >= 60 THEN "Good"
    ELSE IF s >= 40 THEN "Average"
    ELSE "Poor"

\* ScoreBody asking for more than 20 transactions
ScoreBody_over20(B0) ==
    With(B0, LAMBDA B :
        IF DOMAIN B = {}
        THEN [kind |-> "score", health_score |-> 0, rating |-> "No Data"]
        ELSE With(Totals(B), LAMBDA t :
                 With((IF t.inflow - t.outflow > 0 THEN 30 ELSE 10)
                          + (IF t.revenue - t.expenses > 0 THEN 30 ELSE 10)
                          + (IF BagCardinality(B) > 20 THEN 20 ELSE 10)
                          + (IF t.revenue > 0 THEN 20 ELSE 5),
                      LAMBDA s : [kind |-> "score", health_score |-> s, rating |-> Rating(s)])))

\* ScoreBody with the two values of the volume component exchanged
ScoreBody_volumePenalty(B0) ==
    With(B0, LAMBDA B :
        IF DOMAIN B = {}
        THEN [kind |-> "score", health_score |-> 0, rating |-> "No Data"]
        ELSE With(Totals(B), LAMBDA t :
                 With((IF t.inflow - t.outflow > 0 THEN 30 ELSE 10)
                          + (IF t.revenue - t.expenses > 0 THEN 30 ELSE 10)
                          + (IF BagCardinality(B) >= 20 THEN 10 ELSE 20)
                          + (IF t.revenue > 0 THEN 20 ELSE 5),
                      LAMBDA s : [kind |-> "score", health_score |-> s, rating |-> Rating(s)])))

\* main.score, lines 493-511
ScoreBody(B0) ==
    With(B0, LAMBDA B :
        IF DOMAIN B = {}
        THEN [kind |-> "score", health_score |-> 0, rating |-> "No Data"]
        ELSE With(Totals(B), LAMBDA t :
                 With((IF t.inflow - t.outflow > 0 THEN 30 ELSE 10)
                          + (IF t.revenue - t.expenses > 0 THEN 30 ELSE 10)
                          + (IF BagCardinality(B) >= 20 THEN 20 ELSE 10)
                          + (IF t.revenue > 0 THEN 20 ELSE 5),
                      LAMBDA s : [kind |-> "score", health_score |-> s, rating |-> Rating(s)])))

Flag(type, severity, message) == [type |-> type, severity |-> severity, message |-> message]

\* RiskList testing the number of transactions first
RiskList_lowDataFirst(B0) ==
    With(B0, LAMBDA B :
        IF DOMAIN B = {}
        THEN <<Flag("no_data", "high", "No transactions uploaded")>>
        ELSE With(Totals(B), LAMBDA t :
                 With((IF BagCardinality(B) < 10
                       THEN <<Flag("low_data", "low", "Few transactions; insights may be weak")>>
                       ELSE <<>>)
                      \o (IF t.inflow - t.outflow < 0
                          THEN <<Flag("cashflow_risk", "high", "Negative cashflow detected")>>
                          ELSE <<>>)
                      \o (IF t.revenue > 0 /\ t.expenses * 10 > t.revenue * 8
                          THEN <<Flag("high_expense", "medium", "Expenses are > 80% of revenue")>>
                          ELSE <<>>),
                      LAMBDA out_list :
                          IF out_list = <<>>
                          THEN <<Flag("no_major_risks", "info", "No major risks detected")>>
                          ELSE out_list)))

\* main.risks, lines 522-542; expenses / revenue > 0.8 is decided on the
\* hundredths the two sums count
RiskList(B0) ==
    With(B0, LAMBDA B :
        IF DOMAIN B = {}
        THEN <<Flag("no_data", "high", "No transactions uploaded")>>
        ELSE With(Totals(B), LAMBDA t :
                 With((IF t.inflow - t.outflow < 0
                       THEN <<Flag("cashflow_risk", "high", "Negative cashflow detected")>>
                       ELSE <<>>)
                      \o (IF t.revenue > 0 /\ t.expenses * 10 > t.revenue * 8
                          THEN <<Flag("high_expense", "medium", "Expenses are > 80% of revenue")>>
                          ELSE <<>>)
                      \o (IF BagCardinality(B) < 10
                          THEN <<Flag("low_data", "low", "Few transactions; insights may be weak")>>
                          ELSE <<>>),
                      LAMBDA out_list :
                          IF out_list = <<>>
                          THEN <<Flag("no_major_risks", "info", "No major risks detected")>>
                          ELSE out_list)))

\* Recs advising on collections whenever there is revenue
Recs_noInflowTest(B0) ==
    With(B0, LAMBDA B :
        IF DOMAIN B = {}
        THEN <<"Upload transactions to get recommendations">>
        ELSE With(Totals(B), LAMBDA t :
                 With((IF t.inflow < t.outflow
                       THEN <<"Reduce expenses or improve collections to fix negative cashflow">>
                       ELSE <<>>)
                      \o (IF t.revenue > 0 /\ t.expenses * 10 > t.revenue * 7
                          THEN <<"Control operating expenses (rent, salary, utilities, marketing)">>
                          ELSE <<>>)
                      \o (IF t.revenue > 0
                          THEN <<"Speed up customer payments (reminders, shorter credit terms)">>
                          ELSE <<>>),
                      LAMBDA recs :
                          IF recs = <<>>
                          THEN <<"Business looks stable. Track KPIs monthly and keep emergency cash reserves">>
                          ELSE recs)))

\* main.recommendations, lines 553-570
Recs(B0) ==
    With(B0, LAMBDA B :
        IF DOMAIN B = {}
        THEN <<"Upload transactions to get recommendations">>
        ELSE With(Totals(B), LAMBDA t :
                 With((IF t.inflow < t.outflow
                       THEN <<"Reduce expenses or improve collections to fix negative cashflow">>
                       ELSE <<>>)
                      \o (IF t.revenue > 0 /\ t.expenses * 10 > t.revenue * 7
                          THEN <<"Control operating expenses (rent, salary, utilities, marketing)">>
                          ELSE <<>>)
                      \o (IF t.revenue > 0 /\ t.inflow < t.revenue
                          THEN <<"Speed up customer payments (reminders, shorter credit terms)">>
                          ELSE <<>>),
                      LAMBDA recs :
                          IF recs = <<>>
                          THEN <<"Business looks stable. Track KPIs monthly and keep emergency cash reserves">>
                          ELSE recs)))

\* _add_months_ym adding to the month number alone
_add_months_ym_noRollover(ym, add) ==
    With(SplitOn(ym, "-"), LAMBDA parts :
        Pad4(DigitsVal(parts[1])) \o "-" \o Pad2(DigitsVal(parts[2]) + add))

\* main._add_months_ym
_add_months_ym(ym, add) ==
    With(SplitOn(ym, "-"), LAMBDA parts :
        With(DigitsVal(parts[1]) * 12 + (DigitsVal(parts[2]) - 1) + add, LAMBDA idx :
            Pad4(idx \div 12) \o "-" \o Pad2((idx % 12) + 1)))

\* LastN taking the first three buckets
LastN_firstThree(monthly) == IF Len(monthly) >= 3 THEN SubSeq(monthly, 1, 3) ELSE monthly

\* monthly[-3:] if len(monthly) >= 3 else monthly
LastN(monthly) ==
    IF Len(monthly) >= 3 THEN SubSeq(monthly, Len(monthly) - 2, Len(monthly)) ELSE monthly

\* sum(x[field] for x in last_n): every bucket of last_n is a month of its own
SumField(last_n, field) == SumOf([i \in 1..Len(last_n) |-> last_n[i][field]])

\* main.forecast, lines 582-596
ForecastBody(business_id, monthly0, months) ==
    With(monthly0, LAMBDA monthly :
        IF monthly = <<>>
        THEN [kind |-> "forecast", business_id |-> business_id, forecast |-> <<>>,
              message |-> "No data to forecast"]
        ELSE With(LastN(monthly), LAMBDA last_n :
                 With2(RoundDiv(SumField(last_n, "revenue"), Len(last_n)),
                       RoundDiv(SumField(last_n, "profit_simple"), Len(last_n)),
                       LAMBDA avg_rev, avg_profit :
                     [kind |-> "forecast",
                      business_id |-> business_id,
                      forecast |-> <<>> \o [i \in 1..months |->
                          [month |-> _add_months_ym(monthly[Len(monthly)].month, i),
                           forecast_revenue |-> avg_rev,
                           forecast_net_cashflow |-> avg_profit]],
                      based_on_months |-> <<>> \o [i \in 1..Len(last_n) |-> last_n[i].month]])))

\* a response body that is a JSON list
ListBody(kind, items) == [kind |-> kind, items |-> items]

\* the months a caller asks GET /forecast for (default 3)
Horizons == {-1, 0, 2, 3}

\* GET /kpis (main.kpis)
Kpis ==
    \E c \in Callers :
      \E auth \in {require_business_owner(c.business_id, c.user_id)} :
        /\ last' = Served("kpis", auth, 0, NoInput,
                          IF auth = 200 THEN KpisBody(c.business_id, TxnsOf(txns, c.business_id))
                          ELSE NoBody)
        /\ UNCHANGED <<df, dfP, norm, normU, normP, normUP, txns, invoices, audit, inflight>>

\* GET /kpis/monthly (main.kpis_monthly)
KpisMonthly ==
    \E c \in Callers :
      \E auth \in {require_business_owner(c.business_id, c.user_id)} :
        /\ last' = Served("kpis_monthly", auth, 0, NoInput,
                          IF auth = 200
                          THEN ListBody("monthly", MonthlySeries(TxnsOf(txns, c.business_id)))
                          ELSE NoBody)
        /\ UNCHANGED <<df, dfP, norm, normU, normP, normUP, txns, invoices, audit, inflight>>

\* GET /score (main.score)
Score ==
    \E c \in Callers :
      \E auth \in {require_business_owner(c.business_id, c.user_id)} :
        /\ last' = Served("score", auth, 0, NoInput,
                          IF auth = 200 THEN ScoreBody(TxnsOf(txns, c.business_id)) ELSE NoBody)
        /\ UNCHANGED <<df, dfP, norm, normU, normP, normUP, txns, invoices, audit, inflight>>

\* GET /risks (main.risks)
Risks ==
    \E c \in Callers :
      \E auth \in {require_business_owner(c.business_id, c.user_id)} :
        /\ last' = Served("risks", auth, 0, NoInput,
                          IF auth = 200
                          THEN ListBody("risks", RiskList(TxnsOf(txns, c.business_id)))
                          ELSE NoBody)
        /\ UNCHANGED <<df, dfP, norm, normU, normP, normUP, txns, invoices, audit, inflight>>

\* GET /recommendations (main.recommendations)
Recommendations ==
    \E c \in Callers :
      \E auth \in {require_business_owner(c.business_id, c.user_id)} :
        /\ last' = Served("recommendations", auth, 0, NoInput,
                          IF auth = 200
                          THEN ListBody("recommendations", Recs(TxnsOf(txns, c.business_id)))
                          ELSE NoBody)
        /\ UNCHANGED <<df, dfP, norm, normU, normP, normUP, txns, invoices, audit, inflight>>

\* GET /forecast (main.forecast): kpis_monthly is called as a function and
\* checks the owner once more
Forecast ==
    \E c \in Callers, months \in Horizons :
      \E auth \in {require_business_owner(c.business_id, c.user_id)} :
        /\ last' = Served("forecast", auth, 0, [kind |-> "months", months |-> months],
                          IF auth = 200
                          THEN ForecastBody(c.business_id,
                                            MonthlySeries(TxnsOf(txns, c.business_id)), months)
                          ELSE NoBody)
        /\ UNCHANGED <<df, dfP, norm, normU, normP, normUP, txns, invoices, audit, inflight>>

\* the limit a caller asks GET /audit/logs for (default 50)
AuditLimits == {1, 50}

\* rows of audit_logs of the business, newest first, at most limit of them;
\* an entry's id is its position in the table
AuditRows(table, business_id, limit) ==
    With(Ascending({i \in 1..Len(table) : table[i].business_id = business_id}), LAMBDA ids :
        With(Min({limit, Len(ids)}), LAMBDA n :
            <<>> \o [k \in 1..n |->
                [id |-> ids[Len(ids) + 1 - k], entry |-> table[ids[Len(ids) + 1 - k]]]]))

\* GET /audit/logs (main.get_audit_logs)
AuditLogs ==
    \E c \in Callers, limit \in AuditLimits :
      \E auth \in {require_business_owner(c.business_id, c.user_id)} :
        /\ last' = Served("audit_logs", auth, 0, [kind |-> "limit", limit |-> limit],
                          IF auth = 200
                          THEN ListBody("audit_logs", AuditRows(audit, c.business_id, limit))
                          ELSE NoBody)
        /\ UNCHANGED <<df, dfP, norm, normU, normP, normUP, txns, invoices, audit, inflight>>

\* bodies of POST /advisor/chat
ChatPayloads == {[message |-> " How do I cut costs? "], [message |-> "  "], [note |-> "hi"]}

\* what llm_openai.advisor_reply does: it raises (no key, no network, an API
\* error) or it returns the model's text
AdvisorReplies == {[raises |-> TRUE], [raises |-> FALSE, text |-> "Review rent and salaries."]}

\* POST /advisor/chat (routes_advisor.chat): the totals of lines 35-44 go
\* into the prompt alone
AdvisorChat ==
    \E c \in Callers, payload \in ChatPayloads, reply \in AdvisorReplies :
      \E auth \in {require_business_owner(c.business_id, c.user_id)},
         question \in {Strip(Get(payload, "message", ""))} :
        \E status \in {IF auth # 200 THEN auth
                       ELSE IF question = "" THEN 400
                       ELSE IF reply.raises THEN 500
                       ELSE 200} :
            /\ Len(audit) < MaxAudit
            /\ IF status # 200
               THEN /\ last' = Served("advisor_chat", status, 0, NoInput, NoBody)
                    /\ UNCHANGED audit
               ELSE /\ audit' = Append(audit,
                           log_audit(c.user_id, c.business_id, "ADVISOR_CHAT", "ai", 0,
                                     [question |-> Slice(question, 500)]))
                    /\ last' = Served("advisor_chat", 200, 0, NoInput,
                                      [kind |-> "reply", reply |-> reply.text])
            /\ UNCHANGED <<df, dfP, norm, normU, normP, normUP, txns, invoices, inflight>>

\* the rows GET /reports/pdf and the advisor read: the 200 latest of the
\* business
RecentLimit == 200

\* query(...).order_by(Transaction.txn_date.desc()).limit(200).all(): every
\* row while the business has no more than the limit; beyond it, one of the
\* bags of 200 rows none of which is older than a row left out
Recent(B0) ==
    With(B0, LAMBDA B :
        IF BagCardinality(B) <= RecentLimit THEN B
        ELSE CHOOSE R \in SubBag(B) :
                /\ BagCardinality(R) = RecentLimit
                /\ \A t \in DOMAIN R, u \in DOMAIN B :
                       (CopiesIn(u, R) < CopiesIn(u, B)) => u.txn_date <= t.txn_date)

\* the lines of the report after the totals: txns[:20]
ReportListed == 20

\* the figures the PDF of routes_reports.report_pdf prints (lines 31-62)
ReportBody(B0) ==
    With(Recent(B0), LAMBDA B :
        With(Totals(B), LAMBDA t :
            [kind |-> "report", inflow |-> t.inflow, outflow |-> t.outflow,
             net |-> t.inflow - t.outflow,
             listed |-> Min({ReportListed, BagCardinality(B)})]))

\* GET /reports/pdf (routes_reports.report_pdf)
ReportPdf ==
    \E c \in Callers :
      \E auth \in {require_role(c.business_id, c.user_id, {"owner", "accountant"})} :
        /\ last' = Served("report_pdf", auth, 0, NoInput,
                          IF auth = 200 THEN ReportBody(TxnsOf(txns, c.business_id))
                          ELSE NoBody)
        /\ UNCHANGED <<df, dfP, norm, normU, normP, normUP, txns, invoices, audit, inflight>>

NoDataset == [columns |-> <<>>, rows |-> <<>>]

\* the service after start-up: empty tables, no request served
Init ==
    /\ df = NoDataset
    /\ dfP = NoDataset
    /\ norm = NotCalled
    /\ normU = NotCalled
    /\ normP = NotCalled
    /\ normUP = NotCalled
    /\ txns = NoTxns
    /\ invoices = <<>>
    /\ audit = <<>>
    /\ last = Idle
    /\ inflight = <<>>

\* the requests of the metrics engine
NextMetrics ==
    \/ Kpis
    \/ KpisMonthly
    \/ Score
    \/ Risks
    \/ Recommendations
    \/ Forecast

Next ==
    \/ UploadPreview
    \/ UploadCommit
    \/ PdfCommit
    \/ GstImport
    \/ RazorpaySync
    \/ InvoiceOcrCommit
    \/ BankSync

Spec == Init /\ [][Next]_vars

-----------------------------------------------------------------------------
(* The whole service: every ingestion request and every read request,     *)
(* started from the states a first GST import of the owner leaves behind.  *)

\* the payloads of the pool that gst_import accepts
GstAccepted ==
    {p \in GstPayloads :
        /\ Get(p, "invoices", <<>>) # <<>>
        /\ \A i \in 1..Len(p.invoices) : GstRow(p.invoices[i]).ok}

\* the rows gst_import stores of an accepted payload
GstStoredRows(p) == <<>> \o [i \in 1..Len(p.invoices) |-> GstRow(p.invoices[i]).v]

InitService ==
    /\ df = NoDataset
    /\ dfP = NoDataset
    /\ norm = NotCalled
    /\ normU = NotCalled
    /\ normP = NotCalled
    /\ normUP = NotCalled
    /\ invoices = <<>>
    /\ inflight = <<>>
    /\ \E p \in GstAccepted :
          /\ txns = AddAll(NoTxns, 1, GstStoredRows(p))
          /\ audit = <<log_audit(1, 1, "GST_IMPORT", "gst", 0, [inserted |-> Len(p.invoices)])>>
          /\ last = Response("gst_import", 200, Len(p.invoices))

NextService ==
    \/ Next
    \/ NextMetrics
    \/ AuditLogs
    \/ AdvisorChat
    \/ ReportPdf

SpecService == InitService /\ [][NextService]_vars

-----------------------------------------------------------------------------
(* The metrics engine on its own: the requests of NextMetrics served from  *)
(* a store that earlier ingestion has filled.                              *)

\* the most copies of one row a store of the family holds
MaxCopies == 20

\* rows of business 1, as the ingestion paths store them: three months of
\* sales and costs, a receipt that is no revenue, a credit note booked
\* through the GST import with its negative amount, and a bank debit
MonthRows ==
    << <<Stored(1, Txn(20240110, "GST Sale - Invoice 1", "revenue", "credit", Units(1000))),
         Stored(1, Txn(20240120, "Rent", "expense", "debit", Units(800)))>>,
       <<Stored(1, Txn(20240205, "GST Sale - Invoice 2", "revenue", "credit", Units(1200))),
         Stored(1, Txn(20240215, "Stock", "expense", "debit", Units(900)))>>,
       <<Stored(1, Txn(20240301, "GST Sale - Invoice 3", "revenue", "credit", Units(800))),
         Stored(1, Txn(20240309, "Salaries", "expense", "debit", Units(700)))>> >>

LoanRow == Stored(1, Txn(20231231, "Loan received", "loan", "credit", Units(500)))

CreditNoteRow == Stored(1, Txn(20240315, "Credit note", "revenue", "credit", -Units(500)))

BankRow == Stored(1, Txn(20240302, "Bank Auto Sync", "expense", "debit", Units(10)))

\* a row of another business, in every store of the family
OtherRow == Stored(2, Txn(20240110, "GST Sale - Invoice 9", "revenue", "credit", Units(9999)))

\* the store holding of month i its sale (k[i] >= 1) and its cost
\* (k[i] = 2), the rows of extra, b copies of the bank debit, and the row of
\* the other business
StoreOf(k, extra, b) ==
    SetToBag({MonthRows[i][j] : i \in {m \in 1..3 : k[m] >= 1}, j \in {1}}
             \cup {MonthRows[i][2] : i \in {m \in 1..3 : k[m] = 2}}
             \cup extra
             \cup {OtherRow})
        (+) [r \in {x \in {BankRow} : b > 0} |-> b]

\* the stores of the family: every choice of months with or without the
\* loan and the credit note; and the stores around the thresholds of 10 and
\* MaxCopies rows, which add 9, MaxCopies - 1 or MaxCopies bank debits to no
\* month, to the three sales, or to the three sales and costs
Stores ==
    {StoreOf(k, extra, 0) : k \in [1..3 -> 0..2], extra \in SUBSET {LoanRow, CreditNoteRow}}
        \cup {StoreOf([i \in 1..3 |-> n], extra, b) :
                  n \in 0..2, extra \in {{}, {CreditNoteRow}},
                  b \in {9, MaxCopies - 1, MaxCopies}}

InitMetrics ==
    /\ df = NoDataset
    /\ dfP = NoDataset
    /\ norm = NotCalled
    /\ normU = NotCalled
    /\ normP = NotCalled
    /\ normUP = NotCalled
    /\ txns \in Stores
    /\ invoices = <<>>
    /\ audit = <<>>
    /\ last = Idle
    /\ inflight = <<>>

SpecMetrics == InitMetrics /\ [][NextMetrics]_vars

-----------------------------------------------------------------------------
(* Properties of the store, checked under Spec.                            *)

StoredRows == BagToSet(txns)

\* C1 (as claimed): after any sequence of ingestion requests every stored
\* transaction has amount >= 0.
C1_StoredAmountNonNegative == \A t \in StoredRows : t.amount >= 0

Directions == {"credit", "debit"}

\* C2: every row normalization produced and every stored transaction has
\* direction "credit" or "debit"; when the upload carries a direction column
\* (and its required fields, with readable dates) normalization succeeds and a
\* row is a credit exactly when its token is a credit token, a debit for
\* every other token, unrecognized or missing.
C2_DirectionTwoValued ==
    /\ \A t \in StoredRows : t.direction \in Directions
    /\ \A i \in 1..Len(norm.rows) : norm.rows[i].direction \in Directions
    /\ (/\ MainCalled
        /\ df.rows # <<>>
        /\ norm.detected.direction # None
        /\ norm.detected.date # None
        /\ norm.detected.amount # None
        /\ \A i \in RowIdx : _parse_date_any(InMain("date", i)).ok)
       => /\ norm.status = "ok"
          /\ Len(norm.rows) = Len(df.rows)
          /\ \A i \in RowIdx :
                norm.rows[i].direction = (IF IsCreditToken(InMain("direction", i))
                                          THEN "credit" ELSE "debit")

\* C2 witness: an upload whose direction column holds an unrecognized token
\* was committed and that row is stored as a debit, next to a RazorpayX item
\* of type "Debit" stored as a credit.
C2_Witness ==
    /\ MainCalled /\ norm.status = "ok" /\ norm.detected.direction # None
    /\ \E i \in RowIdx :
          /\ InMain("direction", i) = Str("xyz")
          /\ norm.rows[i].direction = "debit"
          /\ Stored(1, norm.rows[i]) \in StoredRows
    /\ \E t \in StoredRows : t.description = "Reversal" /\ t.direction = "credit"

-----------------------------------------------------------------------------
(* Failures of a batch, checked under Spec.                                *)

\* the cell holds no date: it is no date value and its text reads as a date
\* in no order of day, month and year
HoldsNoDate(c) == c.t # "date" /\ GuessOrder(Strip(CellStr(c))) = ""

UploadOps == {"upload_preview", "upload_commit"}

\* C11 (as claimed): when an upload request has normalized a dataset in
\* which some row's date cell holds no date, normalization has failed (no
\* batch is returned) and the request has left the transactions and the
\* audit log as they were.
C11_BadDateFailsBatch ==
    [][(/\ last'.op \in UploadOps
        /\ MainCalled'
        /\ norm'.detected.date # None
        /\ norm'.detected.amount # None
        /\ \E i \in RowIdx' : HoldsNoDate(InMain("date", i)'))
       => (norm'.status # "ok" /\ txns' = txns /\ audit' = audit)]_vars

\* the rows of the dataset whose date cell holds a date
DatedRows == {i \in RowIdx : ~HoldsNoDate(InMain("date", i))}

\* the lines of the statement a pdf_commit request read
LinesRead == IF last.input.kind = "pdf" THEN PageLines(last.input.pages) ELSE <<>>

\* the lines that are candidates for a transaction: they start with a date
\* pattern
Candidates == {i \in 1..Len(LinesRead) : DateReSearch(LinesRead[i])}

\* the candidates whose leading token reads as a date (the date's own digits
\* always supply an amount)
GoodLines == {i \in Candidates : ~HoldsNoDate(Str(SplitWs(LinesRead[i])[1]))}

\* a date cell holding a text that is neither a date nor a marker of a
\* missing value
UnreadableText(c) ==
    c.t = "str" /\ HoldsNoDate(c) /\ Strip(c.s) \notin {"", "nan", "NaT", "None"}

-----------------------------------------------------------------------------
(* Properties of the metrics, checked under SpecMetrics.  The figures a    *)
(* response is compared with are computed here from the table itself.      *)

\* the last request was op and it was answered with a body
Answered(op) == last.op = op /\ last.status = 200

\* the stored rows of the business the owner asks about
Mine == {t \in DOMAIN txns : t.business_id = 1}

\* the sum of the amounts of a set of stored rows, each counted as often as
\* the table holds it
AmountsOf(S) == SumOf([t \in S |-> txns[t] * t.amount])

Credits == {t \in Mine : t.direction = "credit"}

Debits == {t \in Mine : t.direction = "debit"}

RevenueRows == {t \in Credits : t.category = "revenue"}

\* v is x / y * 100 to the nearest hundredth of a percent, for sums x and y
\* of whole currency units (y > 0)
IsPercentOf(v, x, y) ==
    With2(x \div 100, y \div 100, LAMBDA e, r :
        With(v * r - e * 10000, LAMBDA d : 2 * (IF d < 0 THEN -d ELSE d) <= r))

\* C13: the KPI summary of a business reports inflow = sum of its credit
\* amounts, outflow = sum of its debit amounts, revenue = sum of the amounts
\* of its credits of category revenue, expenses = outflow, net_cashflow =
\* inflow - outflow, profit_simple = revenue - expenses, and expense_ratio =
\* expenses / revenue * 100 (to two decimals) when revenue > 0, null otherwise.
C13_KpiFormulas ==
    Answered("kpis") =>
        /\ last.body.total_inflow = AmountsOf(Credits)
        /\ last.body.total_outflow = AmountsOf(Debits)
        /\ last.body.total_revenue = AmountsOf(RevenueRows)
        /\ last.body.total_expenses = AmountsOf(Debits)
        /\ last.body.net_cashflow = AmountsOf(Credits) - AmountsOf(Debits)
        /\ last.body.net_profit_simple = AmountsOf(RevenueRows) - AmountsOf(Debits)
        /\ last.body.expense_ratio.ok <=> AmountsOf(RevenueRows) > 0
        /\ AmountsOf(RevenueRows) > 0
           => /\ AmountsOf(RevenueRows) % 100 = 0 /\ AmountsOf(Debits) % 100 = 0
              /\ IsPercentOf(last.body.expense_ratio.v, AmountsOf(Debits), AmountsOf(RevenueRows))

\* C13 witness: a summary of a store with a receipt that is no revenue and
\* a credit note, where inflow, revenue and outflow differ and the ratio is
\* no whole percentage.
C13_Witness ==
    /\ Answered("kpis")
    /\ last.body.total_inflow > last.body.total_revenue
    /\ last.body.total_revenue > last.body.total_expenses
    /\ last.body.total_expenses > 0
    /\ \E t \in RevenueRows : t.amount < 0
    /\ last.body.expense_ratio.ok
    /\ last.body.expense_ratio.v % 100 # 0

\* the year and month a key "YYYY-MM" names, as the number yyyymm
YearMonthOf(key) == DigitsVal(SubSeq(key, 1, 4)) * 100 + DigitsVal(SubSeq(key, 6, 7))

\* the rows of S dated in the year and month ym
InMonth(S, ym) == {t \in S : t.txn_date \div 100 = ym}

\* the sum of a field over the entries of a list
Sigma(items, field) == SumOf([i \in 1..Len(items) |-> items[i][field]])

\* C14: the monthly series summed over its buckets reproduces the aggregate
\* KPIs (revenue, expenses, profit_simple), and every transaction is counted
\* in exactly one bucket, the one of its calendar year and month.
C14_MonthlyReproducesTotals ==
    Answered("kpis_monthly") =>
        /\ Sigma(last.body.items, "revenue") = AmountsOf(RevenueRows)
        /\ Sigma(last.body.items, "expenses") = AmountsOf(Debits)
        /\ Sigma(last.body.items, "profit_simple") = AmountsOf(RevenueRows) - AmountsOf(Debits)
        /\ \A t \in Mine :
              Cardinality({i \in 1..Len(last.body.items) :
                              YearMonthOf(last.body.items[i].month) = t.txn_date \div 100}) = 1
        /\ \A i \in 1..Len(last.body.items) :
              With(YearMonthOf(last.body.items[i].month), LAMBDA ym :
                  /\ last.body.items[i].revenue = AmountsOf(InMonth(RevenueRows, ym))
                  /\ last.body.items[i].expenses = AmountsOf(InMonth(Debits, ym)))

\* C14 witness: a series of four buckets over two calendar years, one of
\* them holding several rows, one holding a receipt that is no revenue.
C14_Witness ==
    /\ Answered("kpis_monthly")
    /\ Len(last.body.items) = 4
    /\ last.body.items[1].month = "2023-12" /\ last.body.items[1].revenue = 0
    /\ InMonth(Credits, 202312) # {}
    /\ Cardinality(InMonth(Mine, 202403)) >= 3
    /\ last.body.items[4].revenue < last.body.items[4].expenses

\* the rows of business 1 in a table
MineIn(T) == {t \in DOMAIN T : t.business_id = 1}

\* the sum of the amounts of the rows of S as table T holds them
SumIn(T, S) == SumOf([t \in S |-> T[t] * t.amount])

\* the number of rows of business 1 in a table
CountIn(T) == SumOf([t \in MineIn(T) |-> T[t]])

\* the four predicates the score is built from, for the rows of business 1
\* in a table: net_cashflow > 0, profit_simple > 0, count >= 20, revenue > 0
Predicates(T) ==
    With2(SumIn(T, {t \in MineIn(T) : t.direction = "credit"}),
          SumIn(T, {t \in MineIn(T) : t.direction = "debit"}),
          LAMBDA inflow, outflow :
        With(SumIn(T, {t \in MineIn(T) : t.direction = "credit" /\ t.category = "revenue"}),
             LAMBDA revenue :
            <<inflow - outflow > 0, revenue - outflow > 0, CountIn(T) >= 20, revenue > 0>>))

\* the points of a predicate vector
Points(p) ==
    (IF p[1] THEN 30 ELSE 10) + (IF p[2] THEN 30 ELSE 10)
        + (IF p[3] THEN 20 ELSE 10) + (IF p[4] THEN 20 ELSE 5)

\* the place of a rating in the order of the bands
Rank(rating) ==
    IF rating = "Excellent" THEN 4
    ELSE IF rating = "Good" THEN 3
    ELSE IF rating = "Average" THEN 2
    ELSE IF rating = "Poor" THEN 1
    ELSE 0

\* C15: for a non-empty batch the health score is (30 if net_cashflow > 0
\* else 10) + (30 if profit_simple > 0 else 10) + (20 if count >= 20 else 10)
\* + (20 if revenue > 0 else 5), an integer in 0..100, with rating Excellent
\* from 80, Good from 60, Average from 40, Poor below; a business without
\* transactions gets score 0 and rating 'No Data'.
C15_ScoreFormula ==
    Answered("score") =>
        IF Mine = {}
        THEN last.body.health_score = 0 /\ last.body.rating = "No Data"
        ELSE /\ last.body.health_score = Points(Predicates(txns))
             /\ last.body.health_score \in 0..100
             /\ last.body.rating =
                    (IF last.body.health_score >= 80 THEN "Excellent"
                     ELSE IF last.body.health_score >= 60 THEN "Good"
                     ELSE IF last.body.health_score >= 40 THEN "Average"
                     ELSE "Poor")

\* C15 witness: the score of a business with exactly 20 transactions, all
\* debits: 10 + 10 + 20 + 5, rated Average.
C15_Witness ==
    /\ Answered("score")
    /\ CountIn(txns) = 20
    /\ Predicates(txns) = <<FALSE, FALSE, TRUE, FALSE>>
    /\ last.body.health_score = 45
    /\ last.body.rating = "Average"

\* the predicate vectors p and q agree except at k, false in p and true in q
FlipsAt(p, q, k) == ~p[k] /\ q[k] /\ \A j \in (1..4) \ {k} : p[j] = q[j]

\* C16: of two non-empty batches whose four predicates agree except for one
\* that is false in the first and true in the second, the second has a score
\* at least as high and a rating band not lower.  The first batch is the one
\* the score was asked for, the second any store of the family.
C16_ScoreMonotone ==
    (Answered("score") /\ Mine # {}) =>
        \A S \in Stores :
            (MineIn(S) # {} /\ \E k \in 1..4 : FlipsAt(Predicates(txns), Predicates(S), k))
            => With(ScoreBody(TxnsOf(S, 1)), LAMBDA second :
                   /\ second.health_score >= last.body.health_score
                   /\ Rank(second.rating) >= Rank(last.body.rating))

\* C16 witness: the score of a batch with all four predicates false (a
\* credit note alone), for which the family holds a batch that differs in
\* net_cashflow alone, one that differs in the count alone and one that
\* differs in revenue alone, the last in a higher band.
C16_Witness ==
    /\ Answered("score") /\ Mine # {}
    /\ Predicates(txns) = <<FALSE, FALSE, FALSE, FALSE>>
    /\ \A k \in {1, 3, 4} : \E S \in Stores :
          /\ MineIn(S) # {}
          /\ FlipsAt(Predicates(txns), Predicates(S), k)
          /\ ScoreBody(TxnsOf(S, 1)).health_score > last.body.health_score
    /\ \E S \in Stores :
          /\ FlipsAt(Predicates(txns), Predicates(S), 4)
          /\ Rank(ScoreBody(TxnsOf(S, 1)).rating) > Rank(last.body.rating)

\* the three conditions of risk detection, decided on the table: net
\* cashflow < 0; revenue > 0 and expenses / revenue > 0.8; fewer than 10
\* transactions
Triggers ==
    <<AmountsOf(Credits) - AmountsOf(Debits) < 0,
      AmountsOf(RevenueRows) > 0 /\ AmountsOf(Debits) * 10 > AmountsOf(RevenueRows) * 8,
      CountIn(txns) < 10>>

\* type and severity of the flags of a list, in order
Kinds(items) == [i \in 1..Len(items) |-> <<items[i].type, items[i].severity>>]

\* C17: on a non-empty batch risk detection emits one flag per triggered
\* condition in the order cashflow_risk (high), high_expense (medium),
\* low_data (low); the single info flag no_major_risks if and only if none
\* triggers; on zero transactions exactly one high-severity no_data flag;
\* never an empty list.
C17_RiskFlags ==
    Answered("risks") =>
        /\ last.body.items # <<>>
        /\ IF Mine = {}
           THEN Kinds(last.body.items) = <<<<"no_data", "high">>>>
           ELSE /\ (\E i \in 1..Len(last.body.items) : last.body.items[i].type = "no_major_risks")
                    <=> Triggers = <<FALSE, FALSE, FALSE>>
                /\ Triggers = <<FALSE, FALSE, FALSE>>
                   => Kinds(last.body.items) = <<<<"no_major_risks", "info">>>>
                /\ Triggers # <<FALSE, FALSE, FALSE>>
                   => Kinds(last.body.items) =
                          (IF Triggers[1] THEN <<<<"cashflow_risk", "high">>>> ELSE <<>>)
                              \o (IF Triggers[2] THEN <<<<"high_expense", "medium">>>> ELSE <<>>)
                              \o (IF Triggers[3] THEN <<<<"low_data", "low">>>> ELSE <<>>)

\* C17 witness: a batch of three rows with negative cashflow and expenses
\* above 80% of a positive revenue: three flags, in the claimed order.
C17_Witness ==
    /\ Answered("risks")
    /\ Triggers = <<TRUE, TRUE, TRUE>>
    /\ Len(last.body.items) = 3
    /\ last.body.items[1].type = "cashflow_risk"
    /\ last.body.items[3].type = "low_data"

\* the calendar months (yyyymm) in which the business has rows
MonthsOf == {t.txn_date \div 100 : t \in Mine}

\* the last min(3, n) of them
Trailing == {m \in MonthsOf : Cardinality({x \in MonthsOf : x > m}) < 3}

\* the rows of S dated in one of the trailing months
InTrailing(S) == {t \in S : t.txn_date \div 100 \in Trailing}

\* v is sum / n to the nearest hundredth (n > 0)
IsMeanOf(v, sum, n) == With(v * n - sum, LAMBDA d : 2 * (IF d < 0 THEN -d ELSE d) <= n)

\* C18: for a non-empty series and a horizon of k months (k >= 0) the
\* forecast has exactly k entries, each with forecast_revenue = the mean of
\* revenue and forecast_net_cashflow = the mean of profit_simple over the
\* last min(3, n) buckets (to two decimals), and based_on_months lists
\* exactly those buckets in chronological order.
C18_ForecastFlatMean ==
    (Answered("forecast") /\ Mine # {} /\ last.input.months >= 0) =>
        /\ Len(last.body.forecast) = last.input.months
        /\ \A i \in 1..Len(last.body.forecast) :
              /\ IsMeanOf(last.body.forecast[i].forecast_revenue,
                          AmountsOf(InTrailing(RevenueRows)), Cardinality(Trailing))
              /\ IsMeanOf(last.body.forecast[i].forecast_net_cashflow,
                          AmountsOf(InTrailing(RevenueRows)) - AmountsOf(InTrailing(Debits)),
                          Cardinality(Trailing))
              /\ last.body.forecast[i].forecast_revenue = last.body.forecast[1].forecast_revenue
              /\ last.body.forecast[i].forecast_net_cashflow
                    = last.body.forecast[1].forecast_net_cashflow
        /\ Len(last.body.based_on_months) = Cardinality(Trailing)
        /\ \A i \in 1..Len(last.body.based_on_months) :
              /\ YearMonthOf(last.body.based_on_months[i]) \in Trailing
              /\ \A j \in 1..(i - 1) :
                    YearMonthOf(last.body.based_on_months[j])
                        < YearMonthOf(last.body.based_on_months[i])

\* C18 witness: the series of the specification's example (revenues 1000,
\* 1200, 800 and profits 200, 300, 100) behind an older bucket of 2023-12,
\* asked for two months: two entries of 1000 and 200, based on the last
\* three of the four buckets.
C18_Witness ==
    /\ Answered("forecast") /\ last.input.months = 2
    /\ Cardinality(MonthsOf) = 4
    /\ Len(last.body.forecast) = 2
    /\ \A i \in 1..2 :
          /\ last.body.forecast[i].forecast_revenue = Units(1000)
          /\ last.body.forecast[i].forecast_net_cashflow = Units(200)
    /\ last.body.based_on_months = <<"2024-01", "2024-02", "2024-03">>

\* C19: with no transaction of the business no metric request fails: the
\* KPI summary has every total 0 and expense_ratio null, the monthly series
\* is empty, the score is 0 / 'No Data', risks is the single no_data flag,
\* recommendations the single 'upload transactions' message, and the
\* forecast an empty list with the message 'No data to forecast'.
C19_EmptyBatch ==
    Mine = {} =>
        /\ last.op \in {"kpis", "kpis_monthly", "score", "risks", "recommendations", "forecast"}
           => last.status \in {200, 403, 404}
        /\ Answered("kpis")
           => /\ last.body.total_transactions = 0
              /\ last.body.total_inflow = 0 /\ last.body.total_outflow = 0
              /\ last.body.net_cashflow = 0 /\ last.body.total_revenue = 0
              /\ last.body.total_expenses = 0 /\ last.body.net_profit_simple = 0
              /\ ~last.body.expense_ratio.ok
        /\ Answered("kpis_monthly") => last.body.items = <<>>
        /\ Answered("score") => (last.body.health_score = 0 /\ last.body.rating = "No Data")
        /\ Answered("risks")
           => /\ Len(last.body.items) = 1
              /\ last.body.items[1].type = "no_data" /\ last.body.items[1].severity = "high"
        /\ Answered("recommendations")
           => last.body.items = <<"Upload transactions to get recommendations">>
        /\ Answered("forecast")
           => (last.body.forecast = <<>> /\ last.body.message = "No data to forecast")

\* C19 witness: a forecast of three months asked for a business without
\* transactions, while the table holds a row of another business.
C19_Witness ==
    /\ Mine = {} /\ DOMAIN txns # {}
    /\ Answered("forecast") /\ last.input.months = 3
    /\ last.body.forecast = <<>>
    /\ last.body.message = "No data to forecast"

-----------------------------------------------------------------------------
(* Properties of the whole service, checked under SpecService.             *)

ReadOps ==
    {"kpis", "kpis_monthly", "score", "risks", "recommendations", "forecast",
     "audit_logs", "advisor_chat", "report_pdf"}

\* C20: transactions are append-only: over every step of every request of
\* the service, each stored transaction stays in the table with its date,
\* description, category, direction, amount and business, as often as it
\* was there; metric queries, audit-log reads, the advisor chat and the
\* report leave the table as it was.
C20_AppendOnly ==
    [][/\ \A t \in DOMAIN txns : t \in DOMAIN txns' /\ txns'[t] >= txns[t]
       /\ last'.op \in ReadOps => txns' = txns]_vars

\* C20 witness: the rows of the first GST import are still in the table
\* after an upload was committed on top of them and a report was generated.
C20_Witness ==
    /\ last.op = "report_pdf" /\ last.status = 200
    /\ Len(audit) = 2
    /\ audit[1].action = "GST_IMPORT" /\ audit[2].action = "UPLOAD_COMMIT"
    /\ \E t \in StoredRows : t.description = "Credit note" /\ t.amount = -Units(500)
    /\ \E t \in StoredRows : t.description = "Sale" /\ t.amount = Units(500)

-----------------------------------------------------------------------------
(* Properties of the stored rows and of the audit trail, checked under     *)
(* Spec.                                                                   *)

\* C21 (as claimed): every stored transaction has a description of at most
\* 255 characters and a lower-cased category of at most 64 characters,
\* whichever ingestion path produced it.
C21_StoredLengths ==
    \A t \in StoredRows :
        /\ Len(t.description) <= 255
        /\ Len(t.category) <= 64
        /\ t.category = Lower(t.category)

\* the requests that change the tables
IngestOps ==
    {"upload_commit", "pdf_commit", "gst_import", "bank_sync", "razorpayx_sync",
     "invoice_ocr_commit"}

\* the requests whose audit payload counts the rows inserted
CountingOps == IngestOps \ {"invoice_ocr_commit"}

\* how many transactions a step adds
Added == BagCardinality(txns') - BagCardinality(txns)

\* a step appends exactly one entry to the audit log
OneEntryMore == Len(audit') = Len(audit) + 1 /\ SubSeq(audit', 1, Len(audit)) = audit

\* the entry a step has appended
NewEntry == audit'[Len(audit')]

\* the entry e is of the business of every row the step adds, and of a user
\* who owns that business
SameBusinessAndUser(e) ==
    /\ \A t \in DOMAIN txns' :
           txns'[t] > (IF t \in DOMAIN txns THEN txns[t] ELSE 0) => t.business_id = e.business_id
    /\ \E b \in Businesses : b.id = e.business_id /\ b.owner_user_id = e.user_id

\* a request that is no successful ingestion leaves both tables as they were
NothingWritten == audit' = audit /\ txns' = txns

-----------------------------------------------------------------------------
(* Properties of the forecast keys and of the totals of a store without    *)
(* negative amounts, checked under SpecMetrics.                            *)

\* the calendar month after month ym (a number yyyymm)
NextMonth(ym) == IF ym % 100 = 12 THEN (ym \div 100 + 1) * 100 + 1 ELSE ym + 1

\* the calendar month i months after ym
RECURSIVE MonthsAfter(_, _)
MonthsAfter(ym, i) == IF i = 0 THEN ym ELSE NextMonth(MonthsAfter(ym, i - 1))

\* key is the text 'YYYY-MM' of a month 01..12
IsMonthKey(key) ==
    /\ Len(key) = 7
    /\ \A j \in {1, 2, 3, 4, 6, 7} : IsDigit(Ch(key, j))
    /\ Ch(key, 5) = "-"
    /\ DigitsVal(SubSeq(key, 6, 7)) \in 1..12

\* C23: the month keys of a forecast over k months are the k calendar months
\* that follow the last month holding a transaction, in ascending order,
\* each a valid 'YYYY-MM' key with month 01..12, the year going up by one
\* after December.
C23_ForecastMonthKeys ==
    (Answered("forecast") /\ Mine # {} /\ last.input.months >= 0) =>
        /\ Len(last.body.forecast) = last.input.months
        /\ \A i \in 1..Len(last.body.forecast) :
              /\ IsMonthKey(last.body.forecast[i].month)
              /\ YearMonthOf(last.body.forecast[i].month) = MonthsAfter(Max(MonthsOf), i)

\* a forecast over three months from a store whose last month is December
\* 2023
C23_Witness ==
    /\ Answered("forecast") /\ last.input.months = 3
    /\ MonthsOf = {202312}
    /\ Len(last.body.forecast) = 3
    /\ last.body.forecast[1].month = "2024-01"
    /\ last.body.forecast[3].month = "2024-03"

-----------------------------------------------------------------------------
(* Properties of the rows extracted from the text of a statement, checked  *)
(* under Spec on the lines the last pdf_commit read.                       *)

\* the leading token of line i, which holds its date
DateToken(i) == SplitWs(LinesRead[i])[1]

\* the description of the row of line i: the line without its date
RestOfLine(i) == Slice(Strip(Replace(LinesRead[i], DateToken(i), "")), DescMax)

\* the stored rows of business 1 that line i accounts for
RowsOfLine(i) ==
    {t \in StoredRows :
        /\ t.business_id = 1
        /\ Ok(t.txn_date) = _parse_date_any(Str(DateToken(i)))
        /\ t.description = RestOfLine(i)}

\* the numeric tokens of a line, left to right
Tokens(line) == FindNums(line, 1)

\* the magnitude, in hundredths, of a numeric token of at most two decimals:
\* its sign and its thousands separators taken away
Magnitude(tok) ==
    With(SplitOn(Replace(Replace(tok, "-", ""), ",", ""), "."), LAMBDA parts :
        DigitsVal(parts[1]) * 100
            + (IF Len(parts) = 1 THEN 0 ELSE DigitsVal(Slice(parts[2] \o "00", 2))))

\* C24: every line that begins with a date yields one transaction whose
\* amount is the absolute value of the last numeric token of the line
\* (thousands separators and decimals read); the lines that do not begin
\* with a date yield none, so the rows reported are as many as those lines.
C24_AmountIsLastToken ==
    (last.op = "pdf_commit" /\ last.input.kind = "pdf") =>
        /\ \A i \in GoodLines :
              /\ Tokens(LinesRead[i]) # <<>>
              /\ last.status = 200
              /\ RowsOfLine(i) # {}
              /\ \A t \in RowsOfLine(i) :
                    t.amount = Magnitude(Tokens(LinesRead[i])[Len(Tokens(LinesRead[i]))])
        /\ last.count = Cardinality(GoodLines)
        /\ \A i \in 1..Len(LinesRead) : i \notin Candidates => i \notin GoodLines

\* a statement of a heading and two dated lines has been committed: the
\* amount 1,234.50 is stored as 123450 hundredths and the amount 50000 as
\* it is, and the heading gave no row
C24_Witness ==
    /\ last.op = "pdf_commit" /\ last.status = 200 /\ last.count = 2
    /\ Len(LinesRead) = 3
    /\ Cardinality(GoodLines) = 2
    /\ \E t \in StoredRows : t.description = "Coffee 1,234.50 DR" /\ t.amount = 123450
    /\ \E t \in StoredRows : t.description = "Salary 50000" /\ t.amount = Units(50000)
    /\ BagCardinality(txns) = 2

\* the line holds DR as a token of its own, or DEBIT anywhere
SaysDebit(line) ==
    \/ \E k \in 1..Len(SplitWs(Upper(line))) : SplitWs(Upper(line))[k] = "DR"
    \/ Contains(Upper(line), "DEBIT")

\* C25 (as claimed): the row of a line is a debit if and only if the line
\* holds 'DR' as a separate token or the substring 'DEBIT', in any case, and
\* a credit otherwise; its category is 'expense' for a debit and 'revenue'
\* for a credit.
C25_DirectionFromText ==
    (last.op = "pdf_commit" /\ last.input.kind = "pdf") =>
        \A i \in GoodLines : \A t \in RowsOfLine(i) :
            /\ t.direction = (IF SaysDebit(LinesRead[i]) THEN "debit" ELSE "credit")
            /\ t.category = (IF t.direction = "debit" THEN "expense" ELSE "revenue")

\* the line holds a digit outside its leading date
HasAmount(i) ==
    \E j \in 1..Len(Replace(LinesRead[i], DateToken(i), "")) :
        IsDigit(Ch(Replace(LinesRead[i], DateToken(i), ""), j))

\* C30 (as claimed): a line that begins with a date and holds no numeric
\* token besides the digits of that date yields no transaction: the rows
\* reported are as many as the dated lines that hold an amount, and the
\* request fails when there is none.
C30_AmountNotFromDate ==
    (last.op = "pdf_commit" /\ last.input.kind = "pdf") =>
        /\ last.count = Cardinality({i \in GoodLines : HasAmount(i)})
        /\ ({i \in GoodLines : HasAmount(i)} = {}) => last.status = 400

-----------------------------------------------------------------------------
(* Properties of the total read from an invoice, checked under Spec on the *)
(* invoices stored.                                                        *)

\* what may stand between the label and its amount: blanks, a colon or a
\* dash, a currency sign
IsLabelGap(c) == IsSpace(c) \/ c \in {":", "-", "{", "|", "}"}

\* the index of the amount that follows a label 'total' at index i of the
\* text, 0 when no label is there or no amount follows it
AmountAfterLabel(text, i) ==
    IF ~WordAt(text, i, "total") THEN 0
    ELSE With(Span(text, i + 5, IsLabelGap), LAMBDA j :
             IF j <= Len(text) /\ IsDigit(Ch(text, j)) THEN j ELSE 0)

\* the indexes of the labels of a text that an amount follows
Labels(text) == {i \in 1..Len(text) : AmountAfterLabel(text, i) # 0}

\* the amount after the first such label, thousands separators and decimals
\* read, in hundredths
LabelledTotal(text) ==
    With(AmountAfterLabel(text, Min(Labels(text))), LAMBDA j :
        Magnitude(SubSeq(text, j, NumEnd(text, j) - 1)))

\* the numeric tokens of a text that hold at least three digits
LongTokens(text) ==
    {k \in 1..Len(Tokens(text)) :
        Cardinality({j \in 1..Len(Tokens(text)[k]) : IsDigit(Ch(Tokens(text)[k], j))}) >= 3}

\* C26 (as claimed): the total of a stored invoice is the amount that
\* follows its 'total' or 'grand total' label when the text holds one,
\* thousands separators read; without a label it is the largest numeric
\* token of at least three digits; without either there is no total, the
\* request is answered all the same and creates no transaction.
C26_TotalFromLabel ==
    /\ \A n \in 1..Len(invoices) :
          With(invoices[n].raw_text, LAMBDA text :
              IF Labels(text) # {}
              THEN invoices[n].total_amount = Ok(LabelledTotal(text))
              ELSE IF LongTokens(text) # {}
              THEN /\ invoices[n].total_amount.ok
                   /\ \A k \in LongTokens(text) :
                         Magnitude(Tokens(text)[k]) <= invoices[n].total_amount.v
                   /\ \E k \in LongTokens(text) :
                         Magnitude(Tokens(text)[k]) = invoices[n].total_amount.v
              ELSE ~invoices[n].total_amount.ok)
    /\ (/\ last.op = "invoice_ocr_commit" /\ last.status = 200
        /\ ~invoices[Len(invoices)].total_amount.ok)
       => last.count = 0

-----------------------------------------------------------------------------
(* Properties of the totals of a business none of whose amounts is         *)
(* negative, checked under SpecMetrics.                                    *)

\* no stored amount of the business is negative
NonNegative == \A t \in Mine : t.amount >= 0

\* the score components: net cashflow, profit, volume, revenue
ScoreValues ==
    {a + b + c + d : a \in {30, 10}, b \in {30, 10}, c \in {20, 10}, d \in {20, 5}}

SpeedUp == "Speed up customer payments (reminders, shorter credit terms)"

\* C29: the recommendation to speed up customer payments is never given
\* for a business none of whose amounts is negative; it can be given only
\* when some stored amount is negative.
C29_NoSpeedUpWithoutNegative ==
    Answered("recommendations") =>
        \A i \in 1..Len(last.body.items) :
            last.body.items[i] = SpeedUp => (\E t \in Mine : t.amount < 0)

\* recommendations for a business with revenue, a loan received besides, and
\* no negative amount: the first guard of the recommendation holds and it
\* is not given
C29_Witness ==
    /\ Answered("recommendations") /\ NonNegative
    /\ AmountsOf(RevenueRows) > 0
    /\ AmountsOf(Credits) > AmountsOf(RevenueRows)
    /\ \A i \in 1..Len(last.body.items) : last.body.items[i] # SpeedUp

-----------------------------------------------------------------------------
(* Two upload commits for one business served at once.  Each request has  *)
(* a database session of its own: db.add keeps a row in the session, and   *)
(* db.commit writes the rows of the session to the table in one           *)
(* transaction.  A step is one statement of main.upload_commit.            *)

\* the locals of a request that has received file f
Received(f) == [file |-> f, pc |-> "received", rows |-> <<>>, added |-> 0, status |-> 0]

\* the request r of inflight with its fields changed to those of the record c
Moved(r, c) ==
    [inflight EXCEPT ![r] = [k \in DOMAIN inflight[r] |->
                                IF k \in DOMAIN c THEN c[k] ELSE inflight[r][k]]]

\* the request ends with an error status: its session is rolled back
Failed(r, status) ==
    /\ inflight' = Moved(r, [pc |-> "done", status |-> status])
    /\ last' = Response("upload_commit", status, 0)
    /\ UNCHANGED <<txns, audit>>

\* read_file_to_df and normalize_transactions (lines 259-263): 400 for a
\* file name or a dataset that is refused
CommitRead ==
    \E r \in DOMAIN inflight :
      \E f \in {inflight[r].file} :
        /\ inflight[r].pc = "received"
        /\ IF UploadStatus(200, f, Normalized[f]) # 200
           THEN Failed(r, UploadStatus(200, f, Normalized[f]))
           ELSE /\ inflight' = Moved(r, [pc |-> "adding", rows |-> Normalized[f].rows])
                /\ UNCHANGED <<txns, audit, last>>
        /\ UNCHANGED <<df, dfP, norm, normU, normP, normUP, invoices>>

\* db.add of the next row (lines 264-274): the row stays in the session
CommitAdd ==
    \E r \in DOMAIN inflight :
        /\ inflight[r].pc = "adding"
        /\ inflight[r].added < Len(inflight[r].rows)
        /\ inflight' = Moved(r, [added |-> inflight[r].added + 1])
        /\ UNCHANGED <<df, dfP, norm, normU, normP, normUP, txns, invoices, audit, last>>

\* CommitSession writing the rows only to a table that holds none of the
\* business yet
CommitSession_firstWriterOnly(table, business_id, rows) ==
    IF \E t \in DOMAIN table : t.business_id = business_id THEN table
    ELSE AddAll(table, business_id, rows)

\* the table after db.commit() of a session holding the rows
CommitSession(table, business_id, rows) == AddAll(table, business_id, rows)

\* db.commit() (line 276): the rows of the session reach the table
\* together, or none does when one cannot be bound (500)
CommitFlush ==
    \E r \in DOMAIN inflight :
      \E rows \in {inflight[r].rows} :
        /\ inflight[r].pc = "adding"
        /\ inflight[r].added = Len(rows)
        /\ IF \E i \in 1..Len(rows) : rows[i].txn_date = NaT
           THEN Failed(r, 500)
           ELSE /\ txns' = CommitSession(txns, 1, rows)
                /\ inflight' = Moved(r, [pc |-> "committed"])
                /\ UNCHANGED <<audit, last>>
        /\ UNCHANGED <<df, dfP, norm, normU, normP, normUP, invoices>>

\* log_audit (lines 278-286)
CommitAudit ==
    \E r \in DOMAIN inflight :
        /\ inflight[r].pc = "committed"
        /\ audit' = Append(audit,
               log_audit(1, 1, "UPLOAD_COMMIT", "transaction", 0,
                         [filename |-> inflight[r].file.filename,
                          inserted |-> Len(inflight[r].rows)]))
        /\ inflight' = Moved(r, [pc |-> "audited"])
        /\ UNCHANGED <<df, dfP, norm, normU, normP, normUP, txns, invoices, last>>

\* return {"inserted": len(rows)} (line 288)
CommitReturn ==
    \E r \in DOMAIN inflight :
        /\ inflight[r].pc = "audited"
        /\ inflight' = Moved(r, [pc |-> "done", status |-> 200])
        /\ last' = Response("upload_commit", 200, Len(inflight[r].rows))
        /\ UNCHANGED <<df, dfP, norm, normU, normP, normUP, txns, invoices, audit>>

\* the owner of business 1 has sent two upload commits, each with a file
\* of the pool
InitConcurrent ==
    /\ df = NoDataset
    /\ dfP = NoDataset
    /\ norm = NotCalled
    /\ normU = NotCalled
    /\ normP = NotCalled
    /\ normUP = NotCalled
    /\ txns = NoTxns
    /\ invoices = <<>>
    /\ audit = <<>>
    /\ last = Idle
    /\ \E f \in UploadFiles, g \in UploadFiles : inflight = <<Received(f), Received(g)>>

\* the steps of the two requests in any order, and GET /kpis at any time
NextConcurrent ==
    \/ CommitRead
    \/ CommitAdd
    \/ CommitFlush
    \/ CommitAudit
    \/ CommitReturn
    \/ Kpis

SpecConcurrent == InitConcurrent /\ [][NextConcurrent]_vars

\* the normalized batch of request r, empty when the request is refused or
\* fails
BatchOf(r) ==
    IF CommitStatus(200, inflight[r].file, Normalized[inflight[r].file]) = 200
    THEN Normalized[inflight[r].file].rows
    ELSE <<>>

\* the bag of the rows of a batch as business 1 stores them
RECURSIVE BagOfBatch(_)
BagOfBatch(rows) ==
    IF rows = <<>> THEN EmptyBag
    ELSE SetToBag({Stored(1, Head(rows))}) (+) BagOfBatch(Tail(rows))

\* the requests whose commit has gone through
Through == {r \in DOMAIN inflight : inflight[r].pc \in {"committed", "audited"}
                                       \/ (inflight[r].pc = "done" /\ inflight[r].status = 200)}

BothDone == Len(inflight) = 2 /\ \A r \in 1..2 : inflight[r].pc = "done"

\* C27: two upload commits for one business served at once.  However their
\* steps interleave, once both have finished the table holds the multiset
\* union of the two normalized batches, each request has reported the size
\* of its own batch, and the KPIs answered afterwards are those of that
\* union, which depend on the two files alone.  At no time does the table
\* hold a part of a batch: it is the union of the batches committed so far.
C27_ConcurrentCommits ==
    Len(inflight) = 2 =>
        /\ txns = (IF 1 \in Through THEN BagOfBatch(BatchOf(1)) ELSE EmptyBag)
                      (+) (IF 2 \in Through THEN BagOfBatch(BatchOf(2)) ELSE EmptyBag)
        /\ \A r \in 1..2 : inflight[r].pc = "done" =>
              /\ inflight[r].status = CommitStatus(200, inflight[r].file,
                                                   Normalized[inflight[r].file])
              /\ inflight[r].status = 200 =>
                    \E i \in 1..Len(audit) :
                        audit[i].payload = [filename |-> inflight[r].file.filename,
                                            inserted |-> Len(BatchOf(r))]
        /\ Len(audit) <= Cardinality(Through)
        /\ (last.op = "upload_commit" /\ last.status = 200) =>
              \E r \in 1..2 : inflight[r].pc = "done" /\ last.count = Len(BatchOf(r))
        /\ BothDone =>
              /\ txns = BagOfBatch(BatchOf(1)) (+) BagOfBatch(BatchOf(2))
              /\ Len(audit) = Cardinality(Through)
              /\ Answered("kpis") =>
                    last.body = KpisBody(1, BagOfBatch(BatchOf(1) \o BatchOf(2)))

\* both requests have finished with different files of two rows each, the
\* request sent second was audited first, the table holds the four rows and
\* the KPIs have been asked for afterwards
C27_Witness ==
    /\ BothDone
    /\ inflight[1].file.filename = "bank.csv" /\ inflight[2].file.filename = "book.XLSX"
    /\ inflight[1].status = 200 /\ inflight[2].status = 200
    /\ audit[1].payload.filename = "book.XLSX"
    /\ BagCardinality(txns) = 4
    /\ Answered("kpis") /\ last.body.total_transactions = 4

====
